---- MODULE Spec2Model ----
(***************************************************************************)
(* A model of cetkaik_naive_representation: the absolute and the relative  *)
(* representation of the 9x9 board and of the Field (board plus the two    *)
(* hop1zuo1), the Perspective transform between them, and the two          *)
(* state-changing operations of IsField:                                   *)
(*   move_nontam_piece_from_src_to_dest_while_taking_opponent_piece_if_needed *)
(*   search_from_hop1zuo1_and_parachute_at                                 *)
(* together with insert_nontam_piece_into_hop1zuo1, the IsBoard operations *)
(* peek, pop and put, the conversions of boards, Fields, pieces and sides, *)
(* and distance.                                                           *)
(***************************************************************************)
EXTENDS Integers, Sequences, FiniteSets, TLC

VARIABLES repr, field, lastCall, steps, conv, mirror

vars == <<repr, field, lastCall, steps, conv, mirror>>

----------------------------------------------------------------------------
(* Bounds of the model.                                                    *)

\* how many successful operations a run performs
MaxSteps == 3

\* the operations take their coordinates among the first NumOpSquares
\* entries of OpSquares
NumOpSquares == 6

\* the parachute operation takes its profession among the first NumProfs
\* entries of ProfessionList
NumProfs == 2

\* the Fields handed to the conversions are those reached from an initial
\* Field by at most SampleDepth successful operations
SampleDepth == 2

\* how many IsBoard operations a run performs
MaxBoardOps == 2

\* put takes its piece among the first NumBoardPieces entries of BoardPieces
NumBoardPieces == 3

\* insert_nontam_piece_into_hop1zuo1 is called while the two hop1zuo1 of the
\* Field hold fewer than MaxHand entries together
MaxHand == 3

\* the (color, profession) pairs inserted into a hop1zuo1 are the first
\* NumHandEntries of HandEntryList
NumHandEntries == 2

\* the strings given to parse_coord have at most this many characters
MaxStrLen == 4

\* usize and isize are modelled with this many bits
IntBits == 16

\* the deltas given to add_delta are the least and greatest two isize values
\* and the values of absolute value at most MaxDelta
MaxDelta == 9

----------------------------------------------------------------------------
(* Enumerations.                                                           *)

Perspective == {"IaIsDownAndPointsUpward", "IaIsUpAndPointsDownward"}

ia_is_down(p) == p = "IaIsDownAndPointsUpward"

AbsoluteSide == {"IASide", "ASide"}

Side == {"Upward", "Downward"}

Color == {"Kok1", "Huok2"}

ProfessionList ==
    <<"Nuak1", "Kauk2", "Gua2", "Kaun1", "Dau2", "Maun1", "Kua2", "Tuk2", "Uai1", "Io">>

Profession == {ProfessionList[i] : i \in 1..Len(ProfessionList)}

\* the vectors of to_absolute_coord
columns == <<"K", "L", "N", "T", "Z", "X", "C", "M", "P">>

rows == <<"A", "E", "I", "U", "O", "Y", "AI", "AU", "IA">>

Row == {rows[i] : i \in 1..9}

Column == {columns[i] : i \in 1..9}

\* absolute::Coord(row, column)
Coord(row, column) == <<row, column>>

AbsCoords == {Coord(r, c) : r \in Row, c \in Column}

\* relative::Coord = [usize; 2], restricted to the board
RelCoords == {<<i, j>> : i \in 0..8, j \in 0..8}

\* Option::None
None == [kind |-> "None"]

\* Option::Some of a value that is not a piece
Some(v) == [kind |-> "Some", val |-> v]

\* Piece::Tam2 (the same shape in both representations)
Tam2 == [kind |-> "Tam2"]

\* Piece::NonTam2Piece { color, prof, side }
NonTam2Piece(color, prof, side) ==
    [kind |-> "NonTam2Piece", color |-> color, prof |-> prof, side |-> side]

\* ColorAndProf { color, prof }: an entry of an absolute hop1zuo1
ColorAndProf(color, prof) == [color |-> color, prof |-> prof]

\* relative::NonTam2PieceUpward { color, prof }: an entry of hop1zuo1of_upward
NonTam2PieceUpward(color, prof) ==
    [kind |-> "NonTam2PieceUpward", color |-> color, prof |-> prof]

\* relative::NonTam2PieceDownward { color, prof }: an entry of hop1zuo1of_downward
NonTam2PieceDownward(color, prof) ==
    [kind |-> "NonTam2PieceDownward", color |-> color, prof |-> prof]

\* Result::Ok / Result::Err
Ok(v) == [tag |-> "Ok", val |-> v]

Err(e) == [tag |-> "Err", val |-> e]

----------------------------------------------------------------------------
(* perspective.rs: coordinates, sides, pieces.                             *)

to_absolute_coord(coord, p) ==
    LET row == coord[1]
        col == coord[2]
    IN  Coord(rows[(IF ia_is_down(p) THEN row ELSE 8 - row) + 1],
              columns[(IF ia_is_down(p) THEN col ELSE 8 - col) + 1])

\* to_relative_coord with the column left unflipped when IA is up
to_relative_coord_column_unflipped(coord, p) ==
    LET row_i == CHOOSE i \in 1..9 : rows[i] = coord[1]
        col_i == CHOOSE j \in 1..9 : columns[j] = coord[2]
    IN  IF ia_is_down(p)
        THEN <<row_i - 1, col_i - 1>>
        ELSE <<8 - (row_i - 1), col_i - 1>>

to_relative_coord(coord, p) ==
    LET row == coord[1]
        col == coord[2]
        columns_col ==
            CASE col = "K" -> 0 [] col = "L" -> 1 [] col = "N" -> 2
              [] col = "T" -> 3 [] col = "Z" -> 4 [] col = "X" -> 5
              [] col = "C" -> 6 [] col = "M" -> 7 [] col = "P" -> 8
        rows_row ==
            CASE row = "A" -> 0 [] row = "E" -> 1 [] row = "I" -> 2
              [] row = "U" -> 3 [] row = "O" -> 4 [] row = "Y" -> 5
              [] row = "AI" -> 6 [] row = "AU" -> 7 [] row = "IA" -> 8
    IN  IF ia_is_down(p)
        THEN <<rows_row, columns_col>>
        ELSE <<8 - rows_row, 8 - columns_col>>

to_absolute_side(side, p) ==
    CASE (side = "Upward" /\ p = "IaIsDownAndPointsUpward")
           \/ (side = "Downward" /\ p = "IaIsUpAndPointsDownward") -> "IASide"
      [] (side = "Downward" /\ p = "IaIsDownAndPointsUpward")
           \/ (side = "Upward" /\ p = "IaIsUpAndPointsDownward") -> "ASide"

\* faulty variant: the perspective is not looked at
to_relative_side_ignoring_perspective(side, p) ==
    IF side = "IASide" THEN "Upward" ELSE "Downward"

to_relative_side(side, p) ==
    CASE (side = "IASide" /\ p = "IaIsDownAndPointsUpward")
           \/ (side = "ASide" /\ p = "IaIsUpAndPointsDownward") -> "Upward"
      [] (side = "IASide" /\ p = "IaIsUpAndPointsDownward")
           \/ (side = "ASide" /\ p = "IaIsDownAndPointsUpward") -> "Downward"

\* faulty variant: the side is converted as if IA were always down
to_relative_piece_with_ia_down(piece, p) ==
    IF piece = Tam2
    THEN Tam2
    ELSE NonTam2Piece(piece.color, piece.prof,
                      to_relative_side(piece.side, "IaIsDownAndPointsUpward"))

to_relative_piece(piece, p) ==
    IF piece = Tam2
    THEN Tam2
    ELSE NonTam2Piece(piece.color, piece.prof, to_relative_side(piece.side, p))

to_absolute_piece(piece, p) ==
    IF piece = Tam2
    THEN Tam2
    ELSE NonTam2Piece(piece.color, piece.prof, to_absolute_side(piece.side, p))

\* Piece::is_tam2
is_tam2(piece) == piece = Tam2

\* Piece::has_side: Tam2 belongs to neither side
has_side(piece, sid) == IF piece = Tam2 THEN FALSE ELSE piece.side = sid

----------------------------------------------------------------------------
(* HashMap<Coord, Piece> (absolute::Board) and Vec (the hop1zuo1).         *)

HashMapGet(m, k) == IF k \in DOMAIN m THEN m[k] ELSE None

\* faulty variant: the entry is left in the map
HashMapRemove_keeps_entry(m, k) == m

HashMapRemove(m, k) == [c \in (DOMAIN m) \ {k} |-> m[c]]

HashMapInsert(m, k, v) == [c \in (DOMAIN m) \cup {k} |-> IF c = k THEN v ELSE m[c]]

\* iter().position(|x| *x == e): index (from 1) of the first entry equal to
\* e, or 0 when there is none
VecPosition(v, e) ==
    IF \E i \in 1..Len(v) : v[i] = e
    THEN CHOOSE i \in 1..Len(v) : v[i] = e /\ \A k \in 1..(i - 1) : v[k] # e
    ELSE 0

\* faulty variant: the entries after index are dropped as well
VecRemove_truncating(v, index) == SubSeq(v, 1, index - 1)

\* Vec::remove(index): the later entries shift down, order kept
VecRemove(v, index) == [i \in 1..(Len(v) - 1) |-> IF i < index THEN v[i] ELSE v[i + 1]]

\* Vec::push
VecPush(v, e) == Append(v, e)

----------------------------------------------------------------------------
(* The initial position.                                                   *)

\* absolute::yhuap_initial_board(): the HashMap built from the table
yhuap_initial_board ==
    (Coord("O", "Z") :> Tam2)
    @@ (Coord("AI", "Z") :> NonTam2Piece("Huok2", "Nuak1", "IASide"))
    @@ (Coord("AI", "K") :> NonTam2Piece("Huok2", "Kauk2", "IASide"))
    @@ (Coord("AI", "N") :> NonTam2Piece("Huok2", "Kauk2", "IASide"))
    @@ (Coord("AI", "C") :> NonTam2Piece("Huok2", "Kauk2", "IASide"))
    @@ (Coord("AI", "P") :> NonTam2Piece("Huok2", "Kauk2", "IASide"))
    @@ (Coord("AI", "L") :> NonTam2Piece("Kok1", "Kauk2", "IASide"))
    @@ (Coord("AI", "T") :> NonTam2Piece("Kok1", "Kauk2", "IASide"))
    @@ (Coord("AI", "X") :> NonTam2Piece("Kok1", "Kauk2", "IASide"))
    @@ (Coord("AI", "M") :> NonTam2Piece("Kok1", "Kauk2", "IASide"))
    @@ (Coord("AU", "L") :> NonTam2Piece("Huok2", "Gua2", "IASide"))
    @@ (Coord("AU", "M") :> NonTam2Piece("Kok1", "Gua2", "IASide"))
    @@ (Coord("IA", "C") :> NonTam2Piece("Huok2", "Kaun1", "IASide"))
    @@ (Coord("IA", "N") :> NonTam2Piece("Kok1", "Kaun1", "IASide"))
    @@ (Coord("AU", "T") :> NonTam2Piece("Huok2", "Dau2", "IASide"))
    @@ (Coord("AU", "X") :> NonTam2Piece("Kok1", "Dau2", "IASide"))
    @@ (Coord("IA", "M") :> NonTam2Piece("Huok2", "Maun1", "IASide"))
    @@ (Coord("IA", "L") :> NonTam2Piece("Kok1", "Maun1", "IASide"))
    @@ (Coord("IA", "P") :> NonTam2Piece("Huok2", "Kua2", "IASide"))
    @@ (Coord("AU", "P") :> NonTam2Piece("Kok1", "Tuk2", "IASide"))
    @@ (Coord("IA", "X") :> NonTam2Piece("Huok2", "Uai1", "IASide"))
    @@ (Coord("IA", "T") :> NonTam2Piece("Kok1", "Uai1", "IASide"))
    @@ (Coord("IA", "Z") :> NonTam2Piece("Huok2", "Io", "IASide"))
    @@ (Coord("IA", "K") :> NonTam2Piece("Kok1", "Kua2", "IASide"))
    @@ (Coord("AU", "K") :> NonTam2Piece("Huok2", "Tuk2", "IASide"))
    @@ (Coord("I", "Z") :> NonTam2Piece("Kok1", "Nuak1", "ASide"))
    @@ (Coord("I", "K") :> NonTam2Piece("Huok2", "Kauk2", "ASide"))
    @@ (Coord("I", "N") :> NonTam2Piece("Huok2", "Kauk2", "ASide"))
    @@ (Coord("I", "C") :> NonTam2Piece("Huok2", "Kauk2", "ASide"))
    @@ (Coord("I", "P") :> NonTam2Piece("Huok2", "Kauk2", "ASide"))
    @@ (Coord("I", "L") :> NonTam2Piece("Kok1", "Kauk2", "ASide"))
    @@ (Coord("I", "T") :> NonTam2Piece("Kok1", "Kauk2", "ASide"))
    @@ (Coord("I", "X") :> NonTam2Piece("Kok1", "Kauk2", "ASide"))
    @@ (Coord("I", "M") :> NonTam2Piece("Kok1", "Kauk2", "ASide"))
    @@ (Coord("E", "M") :> NonTam2Piece("Huok2", "Gua2", "ASide"))
    @@ (Coord("E", "L") :> NonTam2Piece("Kok1", "Gua2", "ASide"))
    @@ (Coord("A", "N") :> NonTam2Piece("Huok2", "Kaun1", "ASide"))
    @@ (Coord("A", "C") :> NonTam2Piece("Kok1", "Kaun1", "ASide"))
    @@ (Coord("E", "X") :> NonTam2Piece("Huok2", "Dau2", "ASide"))
    @@ (Coord("E", "T") :> NonTam2Piece("Kok1", "Dau2", "ASide"))
    @@ (Coord("A", "L") :> NonTam2Piece("Huok2", "Maun1", "ASide"))
    @@ (Coord("A", "M") :> NonTam2Piece("Kok1", "Maun1", "ASide"))
    @@ (Coord("A", "K") :> NonTam2Piece("Huok2", "Kua2", "ASide"))
    @@ (Coord("E", "P") :> NonTam2Piece("Huok2", "Tuk2", "ASide"))
    @@ (Coord("A", "P") :> NonTam2Piece("Kok1", "Kua2", "ASide"))
    @@ (Coord("E", "K") :> NonTam2Piece("Kok1", "Tuk2", "ASide"))
    @@ (Coord("A", "T") :> NonTam2Piece("Huok2", "Uai1", "ASide"))
    @@ (Coord("A", "X") :> NonTam2Piece("Kok1", "Uai1", "ASide"))
    @@ (Coord("A", "Z") :> NonTam2Piece("Kok1", "Io", "ASide"))

\* absolute::Field::yhuap_initial()
\* faulty variant: a corner piece stands in a hop1zuo1 instead of on the board
yhuap_initial_with_captured_corner ==
    [board |-> HashMapRemove(yhuap_initial_board, Coord("A", "K")), a_side_hop1zuo1 |-> <<>>,
     ia_side_hop1zuo1 |-> <<ColorAndProf("Huok2", "Kua2")>>]

yhuap_initial ==
    [board |-> yhuap_initial_board, a_side_hop1zuo1 |-> <<>>, ia_side_hop1zuo1 |-> <<>>]

\* a relative::Board from its nine rows, squares indexed [0..8][0..8]
BoardOfRows(rs) == [i \in 0..8 |-> [j \in 0..8 |-> rs[i + 1][j + 1]]]

\* relative::yhuap_initial_board_where_black_king_points_upward()
yhuap_initial_board_where_black_king_points_upward ==
    LET D(color, prof) == NonTam2Piece(color, prof, "Downward")
        U(color, prof) == NonTam2Piece(color, prof, "Upward")
        N == None
    IN  BoardOfRows(<<
          <<D("Huok2", "Kua2"), D("Huok2", "Maun1"), D("Huok2", "Kaun1"),
            D("Huok2", "Uai1"), D("Kok1", "Io"), D("Kok1", "Uai1"),
            D("Kok1", "Kaun1"), D("Kok1", "Maun1"), D("Kok1", "Kua2")>>,
          <<D("Kok1", "Tuk2"), D("Kok1", "Gua2"), N, D("Kok1", "Dau2"), N,
            D("Huok2", "Dau2"), N, D("Huok2", "Gua2"), D("Huok2", "Tuk2")>>,
          <<D("Huok2", "Kauk2"), D("Kok1", "Kauk2"), D("Huok2", "Kauk2"),
            D("Kok1", "Kauk2"), D("Kok1", "Nuak1"), D("Kok1", "Kauk2"),
            D("Huok2", "Kauk2"), D("Kok1", "Kauk2"), D("Huok2", "Kauk2")>>,
          <<N, N, N, N, N, N, N, N, N>>,
          <<N, N, N, N, Tam2, N, N, N, N>>,
          <<N, N, N, N, N, N, N, N, N>>,
          <<U("Huok2", "Kauk2"), U("Kok1", "Kauk2"), U("Huok2", "Kauk2"),
            U("Kok1", "Kauk2"), U("Huok2", "Nuak1"), U("Kok1", "Kauk2"),
            U("Huok2", "Kauk2"), U("Kok1", "Kauk2"), U("Huok2", "Kauk2")>>,
          <<U("Huok2", "Tuk2"), U("Huok2", "Gua2"), N, U("Huok2", "Dau2"), N,
            U("Kok1", "Dau2"), N, U("Kok1", "Gua2"), U("Kok1", "Tuk2")>>,
          <<U("Kok1", "Kua2"), U("Kok1", "Maun1"), U("Kok1", "Kaun1"),
            U("Kok1", "Uai1"), U("Huok2", "Io"), U("Huok2", "Uai1"),
            U("Huok2", "Kaun1"), U("Huok2", "Maun1"), U("Huok2", "Kua2")>>
        >>)

\* impl Not for relative::Side
Not(side) == IF side = "Upward" THEN "Downward" ELSE "Upward"

\* faulty variant: the side is kept
rotate_piece_or_null_keeping_side(p) ==
    IF p = None THEN None
    ELSE IF p = Tam2 THEN p
    ELSE NonTam2Piece(p.color, p.prof, p.side)

rotate_piece_or_null(p) ==
    IF p = None THEN None
    ELSE IF p = Tam2 THEN p
    ELSE NonTam2Piece(p.color, p.prof, Not(p.side))

\* relative::rotate_coord
rotate_coord(c) == <<8 - c[1], 8 - c[2]>>

\* faulty variant: the sides are inverted and the squares stay where they are
rotate_board_in_place(b) == [i \in 0..8 |-> [j \in 0..8 |-> rotate_piece_or_null(b[i][j])]]

rotate_board(b) == [i \in 0..8 |-> [j \in 0..8 |-> rotate_piece_or_null(b[8 - i][8 - j])]]

yhuap_initial_board_where_red_king_points_upward ==
    rotate_board(yhuap_initial_board_where_black_king_points_upward)

\* a relative::Field of the given board with both hop1zuo1 empty
RelFieldOfBoard(b) ==
    [current_board |-> b, hop1zuo1of_upward |-> <<>>, hop1zuo1of_downward |-> <<>>]

----------------------------------------------------------------------------
(* distance.                                                               *)

\* i32::abs
Abs(x) == IF x < 0 THEN -x ELSE x

\* i32::max
Max(x, y) == IF x >= y THEN x ELSE y

\* faulty variant: the two differences are added
relative_distance_adding(a, b) ==
    LET x_distance == Abs(a[1] - b[1])
        y_distance == Abs(a[2] - b[2])
    IN  x_distance + y_distance

\* relative::distance
relative_distance(a, b) ==
    LET x_distance == Abs(a[1] - b[1])
        y_distance == Abs(a[2] - b[2])
    IN  Max(x_distance, y_distance)

\* absolute::distance
absolute_distance(a, b) ==
    relative_distance(to_relative_coord(a, "IaIsDownAndPointsUpward"),
                      to_relative_coord(b, "IaIsDownAndPointsUpward"))

\* faulty variant: only the cross product is looked at
absolute_same_direction_either_way(origin, a, b) ==
    LET origin_ == to_relative_coord(origin, "IaIsDownAndPointsUpward")
        a_ == to_relative_coord(a, "IaIsDownAndPointsUpward")
        b_ == to_relative_coord(b, "IaIsDownAndPointsUpward")
        a_u == a_[1] - origin_[1]
        a_v == a_[2] - origin_[2]
        b_u == b_[1] - origin_[1]
        b_v == b_[2] - origin_[2]
    IN  a_u * b_v - a_v * b_u = 0

\* absolute::same_direction
absolute_same_direction(origin, a, b) ==
    LET origin_ == to_relative_coord(origin, "IaIsDownAndPointsUpward")
        a_ == to_relative_coord(a, "IaIsDownAndPointsUpward")
        b_ == to_relative_coord(b, "IaIsDownAndPointsUpward")
        a_u == a_[1] - origin_[1]
        a_v == a_[2] - origin_[2]
        b_u == b_[1] - origin_[1]
        b_v == b_[2] - origin_[2]
    IN  (a_u * b_u + a_v * b_v > 0) /\ (a_u * b_v - a_v * b_u = 0)

----------------------------------------------------------------------------
(* lib.rs: CetkaikNaive::add_delta.                                        *)

usize_MAX == 2^IntBits - 1

isize_MAX == 2^(IntBits - 1) - 1

isize_MIN == -(2^(IntBits - 1))

\* usize::checked_add_signed: None when the sum is not a usize
checked_add_signed(x, rhs) ==
    IF x + rhs < 0 \/ x + rhs > usize_MAX THEN None ELSE Some(x + rhs)

\* faulty variant: the sums are not compared with 0..=8
add_delta_unbounded(coord, row_delta, col_delta) ==
    LET l == checked_add_signed(coord[1], row_delta)
        m == checked_add_signed(coord[2], col_delta)
    IN  IF l # None /\ m # None
        THEN Some(<<l.val, m.val>>)
        ELSE None

\* CetkaikNaive::add_delta
add_delta(coord, row_delta, col_delta) ==
    LET l == checked_add_signed(coord[1], row_delta)
        m == checked_add_signed(coord[2], col_delta)
    IN  IF l # None /\ l.val \in 0..8 /\ m # None /\ m.val \in 0..8
        THEN Some(<<l.val, m.val>>)
        ELSE None

----------------------------------------------------------------------------
(* The textual form of a coordinate.  A &str is the sequence of its        *)
(* characters.                                                             *)

\* the characters of the strings given to parse_coord: letters of the
\* tokens, lower-case and unknown letters, and one character of two bytes
SampleChars == {"K", "L", "Z", "A", "I", "U", "E", "a", "k", "B", "e-acute"}

\* char::len_utf8
len_utf8(ch) == IF ch = "e-acute" THEN 2 ELSE 1

RECURSIVE str_len(_)
\* str::len, in bytes
str_len(str) == IF str = <<>> THEN 0 ELSE len_utf8(Head(str)) + str_len(Tail(str))

\* faulty variant: the row token is written first
serialize_coord_row_first(coord) ==
    LET row == coord[1]
        column == coord[2]
    IN  (CASE row = "A" -> <<"A">> [] row = "E" -> <<"E">> [] row = "I" -> <<"I">>
           [] row = "O" -> <<"O">> [] row = "U" -> <<"U">> [] row = "Y" -> <<"Y">>
           [] row = "IA" -> <<"I", "A">> [] row = "AI" -> <<"A", "I">>
           [] row = "AU" -> <<"A", "U">>)
        \o
        (CASE column = "K" -> <<"K">> [] column = "L" -> <<"L">>
           [] column = "M" -> <<"M">> [] column = "N" -> <<"N">>
           [] column = "P" -> <<"P">> [] column = "Z" -> <<"Z">>
           [] column = "X" -> <<"X">> [] column = "C" -> <<"C">>
           [] column = "T" -> <<"T">>)

\* absolute::serialize_coord
serialize_coord(coord) ==
    LET row == coord[1]
        column == coord[2]
    IN  (CASE column = "K" -> <<"K">> [] column = "L" -> <<"L">>
           [] column = "M" -> <<"M">> [] column = "N" -> <<"N">>
           [] column = "P" -> <<"P">> [] column = "Z" -> <<"Z">>
           [] column = "X" -> <<"X">> [] column = "C" -> <<"C">>
           [] column = "T" -> <<"T">>)
        \o
        (CASE row = "A" -> <<"A">> [] row = "E" -> <<"E">> [] row = "I" -> <<"I">>
           [] row = "O" -> <<"O">> [] row = "U" -> <<"U">> [] row = "Y" -> <<"Y">>
           [] row = "IA" -> <<"I", "A">> [] row = "AI" -> <<"A", "I">>
           [] row = "AU" -> <<"A", "U">>)

\* absolute::parse_coord
parse_coord(coord) ==
    IF coord = <<>> \/ str_len(coord) > 3 THEN None
    ELSE
        LET first == Head(coord)
            column ==
                CASE first = "C" -> Some("C") [] first = "K" -> Some("K")
                  [] first = "L" -> Some("L") [] first = "M" -> Some("M")
                  [] first = "N" -> Some("N") [] first = "P" -> Some("P")
                  [] first = "T" -> Some("T") [] first = "X" -> Some("X")
                  [] first = "Z" -> Some("Z") [] OTHER -> None
            rest == Tail(coord)
            row ==
                CASE rest = <<"A">> -> Some("A") [] rest = <<"A", "I">> -> Some("AI")
                  [] rest = <<"A", "U">> -> Some("AU") [] rest = <<"E">> -> Some("E")
                  [] rest = <<"I">> -> Some("I") [] rest = <<"O">> -> Some("O")
                  [] rest = <<"U">> -> Some("U") [] rest = <<"Y">> -> Some("Y")
                  [] rest = <<"I", "A">> -> Some("IA") [] OTHER -> None
        IN  IF column = None THEN None
            ELSE IF row = None THEN None
            ELSE Some(Coord(row.val, column.val))

----------------------------------------------------------------------------
(* perspective.rs: boards and Fields.                                      *)

\* HashMap::new()
HashMapNew == [c \in {} |-> None]

\* the occupied squares [i, j] of a relative board
OccupiedSquares(board) == {ij \in RelCoords : board[ij[1]][ij[2]] # None}

\* ans.insert(to_absolute_coord([i, j], p), ...) for the occupied squares
\* taken row by row: a key inserted more than once keeps the piece of the
\* last square inserted under it
LastInserted(board, p, k) ==
    CHOOSE ij \in OccupiedSquares(board) :
        /\ to_absolute_coord(ij, p) = k
        /\ \A o \in OccupiedSquares(board) :
               to_absolute_coord(o, p) = k => 9 * o[1] + o[2] <= 9 * ij[1] + ij[2]

\* faulty variant: the Tam2 is not copied
to_absolute_board_without_tam2(board, p) ==
    [k \in {to_absolute_coord(ij, p) :
                ij \in {o \in OccupiedSquares(board) : board[o[1]][o[2]] # Tam2}} |->
        to_absolute_piece(board[LastInserted(board, p, k)[1]][LastInserted(board, p, k)[2]], p)]

to_absolute_board(board, p) ==
    [k \in {to_absolute_coord(ij, p) : ij \in OccupiedSquares(board)} |->
        to_absolute_piece(board[LastInserted(board, p, k)[1]][LastInserted(board, p, k)[2]], p)]

\* faulty variant: row and column index are exchanged
to_relative_board_transposed(board, p) ==
    [i \in 0..8 |-> [j \in 0..8 |->
        IF to_absolute_coord(<<j, i>>, p) \in DOMAIN board
        THEN to_relative_piece(board[to_absolute_coord(<<j, i>>, p)], p)
        ELSE None]]

to_relative_board(board, p) ==
    [i \in 0..8 |-> [j \in 0..8 |->
        IF to_absolute_coord(<<i, j>>, p) \in DOMAIN board
        THEN to_relative_piece(board[to_absolute_coord(<<i, j>>, p)], p)
        ELSE None]]

\* .iter().copied().map(|X { color, prof }| ColorAndProf { color, prof }).collect()
MapToColorAndProf(v) == [i \in 1..Len(v) |-> ColorAndProf(v[i].color, v[i].prof)]

MapToNonTam2PieceUpward(v) ==
    [i \in 1..Len(v) |-> NonTam2PieceUpward(v[i].color, v[i].prof)]

MapToNonTam2PieceDownward(v) ==
    [i \in 1..Len(v) |-> NonTam2PieceDownward(v[i].color, v[i].prof)]

to_absolute_field(field_, p) ==
    [board |-> to_absolute_board(field_.current_board, p),
     ia_side_hop1zuo1 |->
         IF p = "IaIsDownAndPointsUpward"
         THEN MapToColorAndProf(field_.hop1zuo1of_upward)
         ELSE MapToColorAndProf(field_.hop1zuo1of_downward),
     a_side_hop1zuo1 |->
         IF p = "IaIsDownAndPointsUpward"
         THEN MapToColorAndProf(field_.hop1zuo1of_downward)
         ELSE MapToColorAndProf(field_.hop1zuo1of_upward)]

\* faulty variant: the hop1zuo1 are assigned without looking at the perspective
to_relative_field_hands_unswapped(field_, p) ==
    [hop1zuo1of_downward |-> MapToNonTam2PieceDownward(field_.a_side_hop1zuo1),
     hop1zuo1of_upward |-> MapToNonTam2PieceUpward(field_.ia_side_hop1zuo1),
     current_board |-> to_relative_board(field_.board, p)]

to_relative_field(field_, p) ==
    [hop1zuo1of_downward |->
         MapToNonTam2PieceDownward(
             IF p = "IaIsUpAndPointsDownward"
             THEN field_.ia_side_hop1zuo1
             ELSE field_.a_side_hop1zuo1),
     hop1zuo1of_upward |->
         MapToNonTam2PieceUpward(
             IF p = "IaIsUpAndPointsDownward"
             THEN field_.a_side_hop1zuo1
             ELSE field_.ia_side_hop1zuo1),
     current_board |-> to_relative_board(field_.board, p)]

----------------------------------------------------------------------------
(* absolute::Field, impl IsField.                                          *)

\* faulty variant: the captured piece goes to the hop1zuo1 of the side that lost it
absolute_push_captured_to_loser(new_self, whose_turn, captured_piece) ==
    IF whose_turn = "IASide"
    THEN [new_self EXCEPT !.a_side_hop1zuo1 =
             VecPush(@, ColorAndProf(captured_piece.color, captured_piece.prof))]
    ELSE [new_self EXCEPT !.ia_side_hop1zuo1 =
             VecPush(@, ColorAndProf(captured_piece.color, captured_piece.prof))]

\* the push of the captured piece onto the hop1zuo1 of whose_turn
absolute_push_captured(new_self, whose_turn, captured_piece) ==
    IF whose_turn = "IASide"
    THEN [new_self EXCEPT !.ia_side_hop1zuo1 =
             VecPush(@, ColorAndProf(captured_piece.color, captured_piece.prof))]
    ELSE [new_self EXCEPT !.a_side_hop1zuo1 =
             VecPush(@, ColorAndProf(captured_piece.color, captured_piece.prof))]

\* faulty variant: a Tam2 found on dest is overwritten without an error
absolute_resolve_capture_takes_tam2(new_self, maybe_captured_piece, whose_turn) ==
    IF maybe_captured_piece # None /\ maybe_captured_piece # Tam2
    THEN IF maybe_captured_piece.side = whose_turn
         THEN Err("Tried to capture an ally")
         ELSE Ok(absolute_push_captured(new_self, whose_turn, maybe_captured_piece))
    ELSE Ok(new_self)

\* what happens to the piece found on dest, once the moving piece is there
absolute_resolve_capture(new_self, maybe_captured_piece, whose_turn) ==
    IF maybe_captured_piece # None
    THEN IF maybe_captured_piece = Tam2
         THEN Err("Tried to capture a Tam2")
         ELSE IF maybe_captured_piece.side = whose_turn
              THEN Err("Tried to capture an ally")
              ELSE Ok(absolute_push_captured(new_self, whose_turn, maybe_captured_piece))
    ELSE Ok(new_self)

\* the checks on the piece removed from src
absolute_check_src(src_piece, whose_turn) ==
    IF src_piece = None
    THEN Err("src does not contain a piece")
    ELSE IF src_piece = Tam2
         THEN Err("Expected a NonTam2Piece to be present at the src, but found a Tam2")
         ELSE IF whose_turn # src_piece.side
              THEN Err("Found the opponent piece at the src")
              ELSE Ok(src_piece)

absolute_move_nontam_piece_from_src_to_dest_while_taking_opponent_piece_if_needed(self, src, dest, whose_turn) ==
    LET src_piece == HashMapGet(self.board, src)
        removed == HashMapRemove(self.board, src)
        checked == absolute_check_src(src_piece, whose_turn)
        maybe_captured_piece == HashMapGet(removed, dest)
        new_self == [self EXCEPT !.board =
                        HashMapInsert(HashMapRemove(removed, dest), dest, src_piece)]
    IN  IF checked.tag = "Err"
        THEN checked
        ELSE absolute_resolve_capture(new_self, maybe_captured_piece, whose_turn)

\* absolute::Board, impl IsBoard: pop returns the board left and the piece
absolute_peek(self, c) == HashMapGet(self, c)

absolute_pop(self, c) == [board |-> HashMapRemove(self, c), res |-> HashMapGet(self, c)]

\* faulty variant: an occupied square keeps its piece
absolute_put_if_empty(self, c, p) ==
    IF p = None
    THEN HashMapRemove(self, c)
    ELSE IF c \in DOMAIN self THEN self ELSE HashMapInsert(self, c, p)

absolute_put(self, c, p) ==
    IF p = None
    THEN HashMapRemove(self, c)
    ELSE HashMapInsert(self, c, p)

\* Field::insert_nontam_piece_into_hop1zuo1
absolute_insert_nontam_piece_into_hop1zuo1(self, color, prof, side) ==
    IF side = "ASide"
    THEN [self EXCEPT !.a_side_hop1zuo1 = VecPush(@, ColorAndProf(color, prof))]
    ELSE [self EXCEPT !.ia_side_hop1zuo1 = VecPush(@, ColorAndProf(color, prof))]

\* the hop1zuo1 of a side
absolute_hop1zuo1(self, side) ==
    IF side = "ASide" THEN self.a_side_hop1zuo1 ELSE self.ia_side_hop1zuo1

\* faulty variant: the entry stays in the hop1zuo1
absolute_remove_from_hop1zuo1_keeping_entry(self, side, index) == self

\* new_self.<side>_hop1zuo1.remove(index)
absolute_remove_from_hop1zuo1(self, side, index) ==
    IF side = "ASide"
    THEN [self EXCEPT !.a_side_hop1zuo1 = VecRemove(@, index)]
    ELSE [self EXCEPT !.ia_side_hop1zuo1 = VecRemove(@, index)]

\* faulty variant: the piece is placed without looking at what dest holds
absolute_search_from_hop1zuo1_and_parachute_at_overwriting(self, color, prof, side, to) ==
    LET index == VecPosition(absolute_hop1zuo1(self, side), ColorAndProf(color, prof))
        new_self == absolute_remove_from_hop1zuo1(self, side, index)
    IN  IF index = 0
        THEN None
        ELSE [new_self EXCEPT !.board =
                 HashMapInsert(@, to, NonTam2Piece(color, prof, side))]

absolute_search_from_hop1zuo1_and_parachute_at(self, color, prof, side, to) ==
    LET index == VecPosition(absolute_hop1zuo1(self, side), ColorAndProf(color, prof))
        new_self == absolute_remove_from_hop1zuo1(self, side, index)
    IN  IF index = 0
        THEN None
        ELSE IF to \in DOMAIN self.board
             THEN None
             ELSE [new_self EXCEPT !.board =
                      HashMapInsert(@, to, NonTam2Piece(color, prof, side))]

----------------------------------------------------------------------------
(* relative::Field, impl IsField.                                          *)

\* self.0[c[0]][c[1]]
RelAt(board, c) == board[c[1]][c[2]]

\* self.0[c[0]][c[1]] = v
RelSet(board, c, v) == [board EXCEPT ![c[1]][c[2]] = v]

\* relative::Board, impl IsBoard: pop returns the board left and the piece
relative_peek(self, c) == RelAt(self, c)

\* faulty variant: the square is not cleared
relative_pop_keeping_square(self, c) ==
    LET o == relative_peek(self, c)
    IN  [board |-> self, res |-> o]

relative_pop(self, c) ==
    LET o == relative_peek(self, c)
    IN  [board |-> RelSet(self, c, None), res |-> o]

relative_put(self, c, p) == RelSet(self, c, p)

\* faulty variant: the captured piece is put in front of the hop1zuo1
relative_push_captured_in_front(new_self, whose_turn, captured_piece) ==
    IF whose_turn = "Downward"
    THEN [new_self EXCEPT !.hop1zuo1of_downward =
             <<NonTam2PieceDownward(captured_piece.color, captured_piece.prof)>> \o @]
    ELSE [new_self EXCEPT !.hop1zuo1of_upward =
             <<NonTam2PieceUpward(captured_piece.color, captured_piece.prof)>> \o @]

relative_push_captured(new_self, whose_turn, captured_piece) ==
    IF whose_turn = "Downward"
    THEN [new_self EXCEPT !.hop1zuo1of_downward =
             VecPush(@, NonTam2PieceDownward(captured_piece.color, captured_piece.prof))]
    ELSE [new_self EXCEPT !.hop1zuo1of_upward =
             VecPush(@, NonTam2PieceUpward(captured_piece.color, captured_piece.prof))]

\* faulty variant: a Tam2 found on dest is overwritten without an error
relative_resolve_capture_takes_tam2(new_self, maybe_captured_piece, whose_turn) ==
    IF maybe_captured_piece # None /\ maybe_captured_piece # Tam2
    THEN IF maybe_captured_piece.side = whose_turn
         THEN Err("Tried to capture an ally")
         ELSE Ok(relative_push_captured(new_self, whose_turn, maybe_captured_piece))
    ELSE Ok(new_self)

relative_resolve_capture(new_self, maybe_captured_piece, whose_turn) ==
    IF maybe_captured_piece # None
    THEN IF maybe_captured_piece = Tam2
         THEN Err("Tried to capture a Tam2")
         ELSE IF maybe_captured_piece.side = whose_turn
              THEN Err("Tried to capture an ally")
              ELSE Ok(relative_push_captured(new_self, whose_turn, maybe_captured_piece))
    ELSE Ok(new_self)

\* faulty variant: the owner of the piece at src is not checked
relative_check_src_any_owner(src_piece, whose_turn) ==
    IF src_piece = None
    THEN Err("src does not contain a piece")
    ELSE IF src_piece = Tam2
         THEN Err("Expected a NonTam2Piece to be present at the src, but found a Tam2")
         ELSE Ok(src_piece)

relative_check_src(src_piece, whose_turn) ==
    IF src_piece = None
    THEN Err("src does not contain a piece")
    ELSE IF src_piece = Tam2
         THEN Err("Expected a NonTam2Piece to be present at the src, but found a Tam2")
         ELSE IF whose_turn # src_piece.side
              THEN Err("Found the opponent piece at the src")
              ELSE Ok(src_piece)

\* the square src is read (Option<Piece> is Copy) and never written
relative_move_nontam_piece_from_src_to_dest_while_taking_opponent_piece_if_needed(self, src, dest, whose_turn) ==
    LET src_piece == RelAt(self.current_board, src)
        checked == relative_check_src(src_piece, whose_turn)
        maybe_captured_piece == RelAt(self.current_board, dest)
        new_self == [self EXCEPT !.current_board = RelSet(@, dest, src_piece)]
    IN  IF checked.tag = "Err"
        THEN checked
        ELSE relative_resolve_capture(new_self, maybe_captured_piece, whose_turn)

relative_hop1zuo1(self, side) ==
    IF side = "Upward" THEN self.hop1zuo1of_upward ELSE self.hop1zuo1of_downward

relative_remove_from_hop1zuo1(self, side, index) ==
    IF side = "Upward"
    THEN [self EXCEPT !.hop1zuo1of_upward = VecRemove(@, index)]
    ELSE [self EXCEPT !.hop1zuo1of_downward = VecRemove(@, index)]

\* faulty variant: the last entry equal to (color, prof) is removed
relative_search_from_hop1zuo1_and_parachute_at_last_match(self, color, prof, side, to) ==
    LET entry == IF side = "Upward"
                 THEN NonTam2PieceUpward(color, prof)
                 ELSE NonTam2PieceDownward(color, prof)
        v == relative_hop1zuo1(self, side)
        index == IF \E i \in 1..Len(v) : v[i] = entry
                 THEN CHOOSE i \in 1..Len(v) :
                          v[i] = entry /\ \A k \in (i + 1)..Len(v) : v[k] # entry
                 ELSE 0
        new_self == relative_remove_from_hop1zuo1(self, side, index)
    IN  IF index = 0
        THEN None
        ELSE IF RelAt(self.current_board, to) # None
             THEN None
             ELSE [new_self EXCEPT !.current_board =
                      RelSet(@, to, NonTam2Piece(color, prof, side))]

relative_search_from_hop1zuo1_and_parachute_at(self, color, prof, side, to) ==
    LET entry == IF side = "Upward"
                 THEN NonTam2PieceUpward(color, prof)
                 ELSE NonTam2PieceDownward(color, prof)
        index == VecPosition(relative_hop1zuo1(self, side), entry)
        new_self == relative_remove_from_hop1zuo1(self, side, index)
    IN  IF index = 0
        THEN None
        ELSE IF RelAt(self.current_board, to) # None
             THEN None
             ELSE [new_self EXCEPT !.current_board =
                      RelSet(@, to, NonTam2Piece(color, prof, side))]

----------------------------------------------------------------------------
(* The state machine: a caller holds a Field of one representation, the    *)
(* absolute or the relative one, and applies the two operations to it; a   *)
(* successful call replaces the Field by the returned one, a failed call   *)
(* leaves the caller's Field.                                              *)
(* A failed call changes nothing but the record of the last call, so the   *)
(* calls that can follow it are the calls that could have been made in its *)
(* place: a run is explored up to its first failed call.                   *)

\* squares the operations are applied to, in the order they are added
OpSquares ==
    <<Coord("O", "Z"), Coord("AI", "Z"), Coord("I", "T"), Coord("I", "X"),
      Coord("U", "Z"), Coord("AI", "T"), Coord("Y", "Z"), Coord("A", "Z"),
      Coord("IA", "Z"), Coord("E", "Z")>>

AbsOpCoords == {OpSquares[i] : i \in 1..NumOpSquares}

\* CetkaikNaive::get_one_perspective(): the arbitrary perspective
get_one_perspective == "IaIsDownAndPointsUpward"

RelOpCoords == {to_relative_coord(c, get_one_perspective) : c \in AbsOpCoords}

OpProfessions == {ProfessionList[i] : i \in 1..NumProfs}

NoCall ==
    [op |-> "none", repr |-> "none", field |-> None, src |-> None, dest |-> None,
     side |-> "none", color |-> "none", prof |-> "none", res |-> None]

\* no relative board is kept in step with the board of the Field
NoMirror == [p |-> "none", pre |-> None, board |-> None, res |-> None]

NoConv == [fn |-> "none", p |-> "none", arg |-> None, out |-> None, back |-> None]

\* the last call returned Err or None
CallFailed ==
    \/ lastCall.op = "move" /\ lastCall.res.tag = "Err"
    \/ lastCall.op = "parachute" /\ lastCall.res = None

CanCall == steps < MaxSteps /\ ~CallFailed

Init ==
    /\ \/ /\ repr = "absolute"
          /\ field = yhuap_initial
       \/ /\ repr = "relative"
          /\ field \in {RelFieldOfBoard(yhuap_initial_board_where_black_king_points_upward),
                        RelFieldOfBoard(yhuap_initial_board_where_red_king_points_upward)}
    /\ lastCall = NoCall
    /\ steps = 0
    /\ conv = NoConv
    /\ mirror = NoMirror

AbsMove ==
    \E src \in AbsOpCoords, dest \in AbsOpCoords, whose_turn \in AbsoluteSide :
        LET res == absolute_move_nontam_piece_from_src_to_dest_while_taking_opponent_piece_if_needed(
                       field, src, dest, whose_turn)
        IN  /\ repr = "absolute"
            /\ CanCall
            /\ lastCall' = [op |-> "move", repr |-> "absolute", field |-> field,
                            src |-> src, dest |-> dest, side |-> whose_turn,
                            color |-> "none", prof |-> "none", res |-> res]
            /\ field' = IF res.tag = "Ok" THEN res.val ELSE field
            /\ steps' = IF res.tag = "Ok" THEN steps + 1 ELSE steps
            /\ UNCHANGED <<repr, conv, mirror>>

AbsParachute ==
    \E color \in Color, prof \in OpProfessions, side \in AbsoluteSide, to \in AbsOpCoords :
        LET res == absolute_search_from_hop1zuo1_and_parachute_at(
                       field, color, prof, side, to)
        IN  /\ repr = "absolute"
            /\ CanCall
            /\ lastCall' = [op |-> "parachute", repr |-> "absolute", field |-> field,
                            src |-> None, dest |-> to, side |-> side,
                            color |-> color, prof |-> prof, res |-> res]
            /\ field' = IF res # None THEN res ELSE field
            /\ steps' = IF res # None THEN steps + 1 ELSE steps
            /\ UNCHANGED <<repr, conv, mirror>>

RelMove ==
    \E src \in RelOpCoords, dest \in RelOpCoords, whose_turn \in Side :
        LET res == relative_move_nontam_piece_from_src_to_dest_while_taking_opponent_piece_if_needed(
                       field, src, dest, whose_turn)
        IN  /\ repr = "relative"
            /\ CanCall
            /\ lastCall' = [op |-> "move", repr |-> "relative", field |-> field,
                            src |-> src, dest |-> dest, side |-> whose_turn,
                            color |-> "none", prof |-> "none", res |-> res]
            /\ field' = IF res.tag = "Ok" THEN res.val ELSE field
            /\ steps' = IF res.tag = "Ok" THEN steps + 1 ELSE steps
            /\ UNCHANGED <<repr, conv, mirror>>

RelParachute ==
    \E color \in Color, prof \in OpProfessions, side \in Side, to \in RelOpCoords :
        LET res == relative_search_from_hop1zuo1_and_parachute_at(
                       field, color, prof, side, to)
        IN  /\ repr = "relative"
            /\ CanCall
            /\ lastCall' = [op |-> "parachute", repr |-> "relative", field |-> field,
                            src |-> None, dest |-> to, side |-> side,
                            color |-> color, prof |-> prof, res |-> res]
            /\ field' = IF res # None THEN res ELSE field
            /\ steps' = IF res # None THEN steps + 1 ELSE steps
            /\ UNCHANGED <<repr, conv, mirror>>

Next == AbsMove \/ AbsParachute \/ RelMove \/ RelParachute

Spec == Init /\ [][Next]_vars

----------------------------------------------------------------------------
(* The hop1zuo1 of an absolute Field filled by its public method, and      *)
(* pieces placed from it; the entries are inserted before the first piece  *)
(* is placed.                                                              *)

HandEntryList ==
    <<ColorAndProf("Kok1", ProfessionList[1]), ColorAndProf("Huok2", ProfessionList[2]),
      ColorAndProf("Huok2", ProfessionList[1]), ColorAndProf("Kok1", ProfessionList[2])>>

HandEntries == {HandEntryList[i] : i \in 1..NumHandEntries}

AbsInsert ==
    \E color \in Color, prof \in OpProfessions, side \in AbsoluteSide :
        LET new_self == absolute_insert_nontam_piece_into_hop1zuo1(field, color, prof, side)
        IN  /\ repr = "absolute"
            /\ ColorAndProf(color, prof) \in HandEntries
            /\ steps = 0 /\ ~CallFailed
            /\ Len(field.ia_side_hop1zuo1) + Len(field.a_side_hop1zuo1) < MaxHand
            /\ lastCall' = [op |-> "insert", repr |-> "absolute", field |-> field,
                            src |-> None, dest |-> None, side |-> side,
                            color |-> color, prof |-> prof, res |-> new_self]
            /\ field' = new_self
            /\ UNCHANGED <<repr, steps, conv, mirror>>

NextHand == AbsInsert \/ AbsParachute

SpecHand == Init /\ [][NextHand]_vars

----------------------------------------------------------------------------
(* The board of an absolute Field, reached through as_board_mut(), under   *)
(* peek, pop and put, and a relative board kept in step with it: the       *)
(* relative board starts as to_relative_board of the absolute one and      *)
(* receives every operation with its coordinate and piece converted.       *)

\* the values put takes: none, and pieces of both sides and the Tam2
BoardPieces ==
    <<None, NonTam2Piece("Kok1", "Kauk2", "IASide"), Tam2,
      NonTam2Piece("Huok2", "Gua2", "ASide"), NonTam2Piece("Huok2", "Io", "IASide")>>

PutPieces == {BoardPieces[i] : i \in 1..NumBoardPieces}

\* Option<Piece> converted: none stays none
OptionToRelativePiece(x, p) == IF x = None THEN None ELSE to_relative_piece(x, p)

InitBoard ==
    /\ repr = "absolute"
    /\ field = yhuap_initial
    /\ lastCall = NoCall
    /\ steps = 0
    /\ conv = NoConv
    /\ \E p \in Perspective :
           mirror = [p |-> p, pre |-> to_relative_board(yhuap_initial_board, p),
                     board |-> to_relative_board(yhuap_initial_board, p), res |-> None]

BoardCalled(op, c, x, board, res, mirror_board, mirror_res) ==
    /\ steps < MaxBoardOps
    /\ lastCall' = [op |-> op, repr |-> "absolute", field |-> field,
                    src |-> None, dest |-> c, side |-> "none",
                    color |-> "none", prof |-> "none", res |-> res, piece |-> x]
    /\ field' = [field EXCEPT !.board = board]
    /\ mirror' = [p |-> mirror.p, pre |-> mirror.board, board |-> mirror_board,
                  res |-> mirror_res]
    /\ steps' = steps + 1
    /\ UNCHANGED <<repr, conv>>

BoardPeek ==
    \E c \in AbsOpCoords :
        BoardCalled("peek", c, None, field.board, absolute_peek(field.board, c),
                    mirror.board,
                    relative_peek(mirror.board, to_relative_coord(c, mirror.p)))

BoardPop ==
    \E c \in AbsOpCoords :
        LET a == absolute_pop(field.board, c)
            r == relative_pop(mirror.board, to_relative_coord(c, mirror.p))
        IN  BoardCalled("pop", c, None, a.board, a.res, r.board, r.res)

BoardPut ==
    \E c \in AbsOpCoords, x \in PutPieces :
        BoardCalled("put", c, x, absolute_put(field.board, c, x), None,
                    relative_put(mirror.board, to_relative_coord(c, mirror.p),
                                 OptionToRelativePiece(x, mirror.p)),
                    None)

NextBoard == BoardPeek \/ BoardPop \/ BoardPut

SpecBoard == InitBoard /\ [][NextBoard]_vars

----------------------------------------------------------------------------
(* The conversions of perspective.rs and distance as calls: the caller     *)
(* holds a Field; an argument (a coordinate, a side, a piece, the Field or *)
(* its board) and a perspective are drawn, the argument is converted, and  *)
(* the result is converted back.                                           *)

\* the absolute Fields returned by one successful operation on a Field of F
AbsFieldsAfter(F) ==
    {absolute_move_nontam_piece_from_src_to_dest_while_taking_opponent_piece_if_needed(
         t[1], t[2], t[3], t[4]).val :
       t \in {u \in F \X AbsOpCoords \X AbsOpCoords \X AbsoluteSide :
                 absolute_move_nontam_piece_from_src_to_dest_while_taking_opponent_piece_if_needed(
                     u[1], u[2], u[3], u[4]).tag = "Ok"}}
    \cup ({absolute_search_from_hop1zuo1_and_parachute_at(f, color, prof, side, to) :
              f \in F, color \in Color, prof \in OpProfessions,
              side \in AbsoluteSide, to \in AbsOpCoords} \ {None})

RECURSIVE AbsFieldsWithin(_)
AbsFieldsWithin(n) ==
    IF n = 0
    THEN {yhuap_initial}
    ELSE AbsFieldsWithin(n - 1) \cup AbsFieldsAfter(AbsFieldsWithin(n - 1))

\* the relative Fields returned by one successful operation on a Field of F
RelFieldsAfter(F) ==
    {relative_move_nontam_piece_from_src_to_dest_while_taking_opponent_piece_if_needed(
         t[1], t[2], t[3], t[4]).val :
       t \in {u \in F \X RelOpCoords \X RelOpCoords \X Side :
                 relative_move_nontam_piece_from_src_to_dest_while_taking_opponent_piece_if_needed(
                     u[1], u[2], u[3], u[4]).tag = "Ok"}}
    \cup ({relative_search_from_hop1zuo1_and_parachute_at(f, color, prof, side, to) :
              f \in F, color \in Color, prof \in OpProfessions,
              side \in Side, to \in RelOpCoords} \ {None})

RECURSIVE RelFieldsWithin(_)
RelFieldsWithin(n) ==
    IF n = 0
    THEN {RelFieldOfBoard(yhuap_initial_board_where_black_king_points_upward),
          RelFieldOfBoard(yhuap_initial_board_where_red_king_points_upward)}
    ELSE RelFieldsWithin(n - 1) \cup RelFieldsAfter(RelFieldsWithin(n - 1))

SampleAbsFields == AbsFieldsWithin(SampleDepth)

SampleRelFields == RelFieldsWithin(SampleDepth)

\* the caller of a board or Field conversion holds one of the sample Fields
InitFieldConv ==
    /\ \/ /\ repr = "absolute"
          /\ field \in SampleAbsFields
       \/ /\ repr = "relative"
          /\ field \in SampleRelFields
    /\ lastCall = NoCall
    /\ steps = 0
    /\ conv = NoConv
    /\ mirror = NoMirror

\* a run makes one call
CanConvert == conv.fn = "none"

Converted(fn, p, arg, out, back) ==
    /\ conv' = [fn |-> fn, p |-> p, arg |-> arg, out |-> out, back |-> back]
    /\ UNCHANGED <<repr, field, lastCall, steps, mirror>>

ConvToRelativeCoord ==
    /\ CanConvert
    /\ \E c \in AbsCoords, p \in Perspective :
            Converted("to_relative_coord", p, c, to_relative_coord(c, p),
                      to_absolute_coord(to_relative_coord(c, p), p))

ConvToAbsoluteCoord ==
    /\ CanConvert
    /\ \E r \in RelCoords, p \in Perspective :
            Converted("to_absolute_coord", p, r, to_absolute_coord(r, p),
                      to_relative_coord(to_absolute_coord(r, p), p))

ConvToRelativeSide ==
    /\ CanConvert
    /\ \E sd \in AbsoluteSide, p \in Perspective :
            Converted("to_relative_side", p, sd, to_relative_side(sd, p),
                      to_absolute_side(to_relative_side(sd, p), p))

ConvToAbsoluteSide ==
    /\ CanConvert
    /\ \E sd \in Side, p \in Perspective :
            Converted("to_absolute_side", p, sd, to_absolute_side(sd, p),
                      to_relative_side(to_absolute_side(sd, p), p))

ConvToRelativePiece ==
    /\ CanConvert
    /\ \E tam2 \in BOOLEAN, c \in Color, pr \in Profession, sd \in AbsoluteSide,
           p \in Perspective :
            LET x == IF tam2 THEN Tam2 ELSE NonTam2Piece(c, pr, sd)
            IN  /\ repr = "absolute"
                /\ Converted("to_relative_piece", p, x, to_relative_piece(x, p),
                             to_absolute_piece(to_relative_piece(x, p), p))

ConvToAbsolutePiece ==
    /\ CanConvert
    /\ \E tam2 \in BOOLEAN, c \in Color, pr \in Profession, sd \in Side,
           p \in Perspective :
            LET y == IF tam2 THEN Tam2 ELSE NonTam2Piece(c, pr, sd)
            IN  /\ repr = "relative"
                /\ Converted("to_absolute_piece", p, y, to_absolute_piece(y, p),
                             to_relative_piece(to_absolute_piece(y, p), p))

ConvToRelativeBoard ==
    /\ CanConvert
    /\ \E p \in Perspective :
            /\ repr = "absolute"
            /\ Converted("to_relative_board", p, field.board,
                         to_relative_board(field.board, p),
                         to_absolute_board(to_relative_board(field.board, p), p))

ConvToAbsoluteBoard ==
    /\ CanConvert
    /\ \E p \in Perspective :
            /\ repr = "relative"
            /\ Converted("to_absolute_board", p, field.current_board,
                         to_absolute_board(field.current_board, p),
                         to_relative_board(to_absolute_board(field.current_board, p), p))

ConvToRelativeField ==
    /\ CanConvert
    /\ \E p \in Perspective :
            /\ repr = "absolute"
            /\ Converted("to_relative_field", p, field, to_relative_field(field, p),
                         to_absolute_field(to_relative_field(field, p), p))

ConvToAbsoluteField ==
    /\ CanConvert
    /\ \E p \in Perspective :
            /\ repr = "relative"
            /\ Converted("to_absolute_field", p, field, to_absolute_field(field, p),
                         to_relative_field(to_absolute_field(field, p), p))

\* out is absolute::distance(a, b); back is relative::distance of the two
\* squares converted with p
ConvDistance ==
    /\ CanConvert
    /\ \E a \in AbsCoords, b \in AbsCoords, p \in Perspective :
            Converted("distance", p, <<a, b>>, absolute_distance(a, b),
                      relative_distance(to_relative_coord(a, p), to_relative_coord(b, p)))

\* out is absolute::same_direction(origin, a, b); back is the same test on
\* the squares numbered with p
ConvSameDirection ==
    /\ CanConvert
    /\ \E origin \in AbsOpCoords, a \in AbsCoords, b \in AbsCoords, p \in Perspective :
           LET o_ == to_relative_coord(origin, p)
               a_ == to_relative_coord(a, p)
               b_ == to_relative_coord(b, p)
               dot == (a_[1] - o_[1]) * (b_[1] - o_[1]) + (a_[2] - o_[2]) * (b_[2] - o_[2])
               cross == (a_[1] - o_[1]) * (b_[2] - o_[2]) - (a_[2] - o_[2]) * (b_[1] - o_[1])
           IN  Converted("same_direction", p, <<origin, a, b>>,
                         absolute_same_direction(origin, a, b),
                         dot > 0 /\ cross = 0)

\* absolute::serialize_coord, and absolute::parse_coord of its result
ConvSerializeCoord ==
    /\ CanConvert
    /\ \E c \in AbsCoords :
           Converted("serialize_coord", "none", c, serialize_coord(c),
                     parse_coord(serialize_coord(c)))

\* absolute::parse_coord of a string; back is the string of the coordinate
\* that was read
ConvParseCoord ==
    /\ CanConvert
    /\ \E n \in 0..MaxStrLen :
           \E str \in [1..n -> SampleChars] :
               LET out == parse_coord(str)
               IN  Converted("parse_coord", "none", str, out,
                             IF out = None THEN None ELSE Some(serialize_coord(out.val)))

\* the deltas given to add_delta
SampleDeltas ==
    (-MaxDelta..MaxDelta) \cup {isize_MIN, isize_MIN + 1, isize_MAX - 1, isize_MAX}

\* CetkaikNaive::add_delta of a square of the board and two deltas
ConvAddDelta ==
    /\ CanConvert
    /\ \E c \in RelCoords, row_delta \in SampleDeltas, col_delta \in SampleDeltas :
           Converted("add_delta", "none", <<c, row_delta, col_delta>>,
                     add_delta(c, row_delta, col_delta), None)

\* the conversions that do not read the Field
NextConv ==
    \/ ConvToRelativeCoord
    \/ ConvToAbsoluteCoord
    \/ ConvToRelativeSide
    \/ ConvToAbsoluteSide
    \/ ConvToRelativePiece
    \/ ConvToAbsolutePiece
    \/ ConvDistance
    \/ ConvSameDirection
    \/ ConvSerializeCoord
    \/ ConvParseCoord
    \/ ConvAddDelta

\* relative::rotate_piece_or_null, and the same on its result
ConvRotatePiece ==
    /\ CanConvert
    /\ \E k \in {"None", "Tam2", "NonTam2Piece"}, c \in Color, pr \in Profession,
           sd \in Side :
           LET x == CASE k = "None" -> None
                      [] k = "Tam2" -> Tam2
                      [] OTHER -> NonTam2Piece(c, pr, sd)
           IN  Converted("rotate_piece_or_null", "none", x, rotate_piece_or_null(x),
                         rotate_piece_or_null(rotate_piece_or_null(x)))

\* relative::rotate_coord, and the same on its result
ConvRotateCoord ==
    /\ CanConvert
    /\ \E c \in RelCoords :
           Converted("rotate_coord", "none", c, rotate_coord(c),
                     rotate_coord(rotate_coord(c)))

\* relative::rotate_board of the board held, and the same on its result
ConvRotateBoard ==
    /\ CanConvert
    /\ repr = "relative"
    /\ Converted("rotate_board", "none", field.current_board,
                 rotate_board(field.current_board),
                 rotate_board(rotate_board(field.current_board)))

\* out is the rotated board read with p, back is the board itself read with
\* the other perspective
ConvRotatedToAbsoluteBoard ==
    /\ CanConvert
    /\ repr = "relative"
    /\ \E p \in Perspective, q \in Perspective :
           /\ p # q
           /\ Converted("rotate_board, to_absolute_board", p, field.current_board,
                        to_absolute_board(rotate_board(field.current_board), p),
                        to_absolute_board(field.current_board, q))

\* the conversions of the Field, of its board and of pieces
NextFieldConv ==
    \/ ConvToRelativePiece
    \/ ConvToAbsolutePiece
    \/ ConvToRelativeBoard
    \/ ConvToAbsoluteBoard
    \/ ConvToRelativeField
    \/ ConvToAbsoluteField
    \/ ConvRotatePiece
    \/ ConvRotateCoord
    \/ ConvRotateBoard
    \/ ConvRotatedToAbsoluteBoard

SpecConv == Init /\ [][NextConv]_vars

SpecFieldConv == InitFieldConv /\ [][NextFieldConv]_vars

----------------------------------------------------------------------------
(* Properties.                                                             *)

\* C1: for every absolute coordinate c and both perspectives p,
\* to_absolute_coord(to_relative_coord(c, p), p) = c, and for every relative
\* coordinate r on the board, to_relative_coord(to_absolute_coord(r, p), p) = r;
\* each conversion lands on the board, so each is a bijection of the 81 squares.
C1_CoordRoundTrip ==
    /\ conv.fn = "to_relative_coord" =>
          /\ conv.out \in RelCoords
          /\ conv.back = conv.arg
    /\ conv.fn = "to_absolute_coord" =>
          /\ conv.out \in AbsCoords
          /\ conv.back = conv.arg

\* a corner square seen with IA up: the conversion has flipped both indices
C1_Witness ==
    /\ conv.fn = "to_relative_coord"
    /\ conv.p = "IaIsUpAndPointsDownward"
    /\ conv.arg = Coord("A", "K")
    /\ conv.out = <<8, 8>>
    /\ conv.back = conv.arg

----------------------------------------------------------------------------
(* The last call, as the properties read it.                               *)

IsMove == lastCall.op = "move"

IsParachute == lastCall.op = "parachute"

IsAbs == lastCall.repr = "absolute"

IsRel == lastCall.repr = "relative"

AllCoords == IF IsAbs THEN AbsCoords ELSE RelCoords

\* IsBoard::peek on the board of a Field of the representation called
PeekIn(f, c) ==
    IF IsAbs THEN HashMapGet(f.board, c) ELSE RelAt(f.current_board, c)

\* the square c of the Field passed to the call
PeekPre(c) == PeekIn(lastCall.field, c)

\* the Field the caller holds after the call
CurrentField == field

\* the Field a successful call returned
Returned == IF IsMove THEN lastCall.res.val ELSE lastCall.res

MoveOk == IsMove /\ lastCall.res.tag = "Ok"

\* r is Result::Err(msg)
IsErr(r, msg) == r.tag = "Err" /\ r.val = msg

MoveErr(msg) == IsMove /\ IsErr(lastCall.res, msg)

\* the (color, profession) pairs of a hop1zuo1, in its order
ColorsAndProfs(v) == [i \in 1..Len(v) |-> ColorAndProf(v[i].color, v[i].prof)]

\* the hop1zuo1 of a side in a Field of the representation called, as
\* (color, profession) pairs
HandIn(f, side) ==
    IF IsAbs
    THEN ColorsAndProfs(absolute_hop1zuo1(f, side))
    ELSE ColorsAndProfs(relative_hop1zuo1(f, side))

SidesOfCall == IF IsAbs THEN AbsoluteSide ELSE Side

\* src holds a non-neutral piece of the acting side
SrcIsOwn == PeekPre(lastCall.src) # None /\ has_side(PeekPre(lastCall.src), lastCall.side)

\* number of occupied squares of an absolute board
PieceCount(board) == Cardinality(DOMAIN board)

\* number of entries of a hop1zuo1 equal to e
Occurrences(v, e) == Cardinality({i \in 1..Len(v) : v[i] = e})

AllColorAndProf == {ColorAndProf(c, pr) : c \in Color, pr \in Profession}

----------------------------------------------------------------------------

\* C2: absolute Operation A with src holding a non-neutral piece of the
\* acting side and dest empty succeeds; in the returned Field src is empty,
\* dest holds the piece that was at src, every other square is unchanged and
\* both hop1zuo1 are unchanged.
C2_AbsMoveToEmpty ==
    (IsMove /\ IsAbs /\ SrcIsOwn /\ PeekPre(lastCall.dest) = None) =>
        /\ lastCall.res.tag = "Ok"
        /\ PeekIn(Returned, lastCall.src) = None
        /\ PeekIn(Returned, lastCall.dest) = PeekPre(lastCall.src)
        /\ \A c \in AbsCoords \ {lastCall.src, lastCall.dest} :
               PeekIn(Returned, c) = PeekPre(c)
        /\ Returned.a_side_hop1zuo1 = lastCall.field.a_side_hop1zuo1
        /\ Returned.ia_side_hop1zuo1 = lastCall.field.ia_side_hop1zuo1
        /\ CurrentField = Returned

\* the IA-side vessel has moved from ZAI onto the empty ZU
C2_Witness ==
    /\ IsMove /\ IsAbs /\ SrcIsOwn
    /\ lastCall.src = Coord("AI", "Z") /\ lastCall.dest = Coord("U", "Z")
    /\ PeekPre(lastCall.dest) = None
    /\ lastCall.res.tag = "Ok"
    /\ HashMapGet(field.board, Coord("U", "Z")) = NonTam2Piece("Huok2", "Nuak1", "IASide")

\* C3: relative Operation A, when it succeeds with src different from dest,
\* returns a Field whose src square is empty and whose dest square holds the
\* piece that was at src.
C3_RelMoveClearsSrc ==
    (IsRel /\ MoveOk /\ lastCall.src # lastCall.dest) =>
        /\ PeekIn(Returned, lastCall.src) = None
        /\ PeekIn(Returned, lastCall.dest) = PeekPre(lastCall.src)

\* C4: absolute Operation A with src holding a piece of the acting side and
\* dest holding a non-neutral piece of the other side succeeds; the board has
\* one piece fewer, the hop1zuo1 of the acting side is the old one with one
\* entry added that carries the color and profession of the piece that stood
\* on dest, and the hop1zuo1 of the other side is unchanged.
C4_AbsCaptureConservation ==
    (IsMove /\ IsAbs /\ SrcIsOwn
       /\ PeekPre(lastCall.dest) # None /\ PeekPre(lastCall.dest) # Tam2
       /\ ~has_side(PeekPre(lastCall.dest), lastCall.side)) =>
        LET captured == PeekPre(lastCall.dest)
            entry == ColorAndProf(captured.color, captured.prof)
        IN  /\ lastCall.res.tag = "Ok"
            /\ PieceCount(Returned.board) = PieceCount(lastCall.field.board) - 1
            /\ Len(HandIn(Returned, lastCall.side))
                   = Len(HandIn(lastCall.field, lastCall.side)) + 1
            /\ \A e \in AllColorAndProf :
                   Occurrences(HandIn(Returned, lastCall.side), e)
                     = Occurrences(HandIn(lastCall.field, lastCall.side), e)
                         + (IF e = entry THEN 1 ELSE 0)
            /\ \A s \in AbsoluteSide \ {lastCall.side} :
                   HandIn(Returned, s) = HandIn(lastCall.field, s)

\* the IA side, already holding a captured piece, has captured a second one
C4_Witness ==
    /\ IsMove /\ IsAbs /\ SrcIsOwn /\ lastCall.side = "IASide"
    /\ PeekPre(lastCall.dest) # None /\ PeekPre(lastCall.dest) # Tam2
    /\ has_side(PeekPre(lastCall.dest), "ASide")
    /\ Len(lastCall.field.ia_side_hop1zuo1) = 1
    /\ lastCall.res.tag = "Ok"
    /\ Len(field.ia_side_hop1zuo1) = 2

\* C5: in both representations, Operation A with src holding a non-neutral
\* piece of the acting side and dest holding a piece of the acting side fails
\* with "Tried to capture an ally" and the caller's Field is as it was.
C5_NoSelfCapture ==
    (IsMove /\ SrcIsOwn
       /\ PeekPre(lastCall.dest) # None
       /\ has_side(PeekPre(lastCall.dest), lastCall.side)) =>
        /\ IsErr(lastCall.res, "Tried to capture an ally")
        /\ CurrentField = lastCall.field

\* C6: in both representations, Operation A fails with the empty-source
\* error when src is empty, with the source-is-Tam2 error when src holds
\* Tam2, and with the opponent-piece error when src holds a piece of the
\* other side, whatever dest holds; the caller's Field is as it was.
C6_SourceChecks ==
    IsMove =>
        /\ PeekPre(lastCall.src) = None =>
               IsErr(lastCall.res, "src does not contain a piece")
        /\ PeekPre(lastCall.src) = Tam2 =>
               IsErr(lastCall.res, "Expected a NonTam2Piece to be present at the src, but found a Tam2")
        /\ (PeekPre(lastCall.src) # None /\ PeekPre(lastCall.src) # Tam2
              /\ ~has_side(PeekPre(lastCall.src), lastCall.side)) =>
               IsErr(lastCall.res, "Found the opponent piece at the src")
        /\ ~SrcIsOwn => CurrentField = lastCall.field

\* the acting side names an opponent piece as src and Tam2 as dest: the
\* source error is the one returned
C6_Witness ==
    /\ IsMove /\ IsRel
    /\ PeekPre(lastCall.src) # None /\ PeekPre(lastCall.src) # Tam2
    /\ ~has_side(PeekPre(lastCall.src), lastCall.side)
    /\ PeekPre(lastCall.dest) = Tam2
    /\ IsErr(lastCall.res, "Found the opponent piece at the src")
    /\ field = lastCall.field

\* C7: in both representations, Operation A with src holding a non-neutral
\* piece of the acting side and dest holding Tam2 fails with "Tried to
\* capture a Tam2"; the caller's Field still has Tam2 on dest and the moving
\* piece on src.
C7_CannotCaptureTam2 ==
    (IsMove /\ SrcIsOwn /\ PeekPre(lastCall.dest) = Tam2) =>
        /\ IsErr(lastCall.res, "Tried to capture a Tam2")
        /\ CurrentField = lastCall.field
        /\ PeekIn(CurrentField, lastCall.dest) = Tam2
        /\ PeekIn(CurrentField, lastCall.src) = PeekPre(lastCall.src)

\* after an earlier successful call, a piece of the acting side was sent
\* onto Tam2 and the call failed
C7_Witness ==
    /\ IsMove /\ SrcIsOwn /\ PeekPre(lastCall.dest) = Tam2
    /\ steps >= 1
    /\ IsErr(lastCall.res, "Tried to capture a Tam2")
    /\ PeekIn(CurrentField, lastCall.dest) = Tam2

\* number of squares of a board that hold Tam2
AbsTam2Count(board) == Cardinality({c \in DOMAIN board : board[c] = Tam2})

RelTam2Count(board) == Cardinality({c \in RelCoords : RelAt(board, c) = Tam2})

\* C8: every Field reached from the initial Field by Operation A calls has
\* exactly one Tam2 on its board, in the absolute and in the relative
\* representation.
C8_OneTam2 ==
    /\ repr = "absolute" => AbsTam2Count(field.board) = 1
    /\ repr = "relative" => RelTam2Count(field.current_board) = 1

\* a relative Field after three successful moves, the last one a capture
C8_Witness ==
    /\ repr = "relative"
    /\ MoveOk /\ PeekPre(lastCall.dest) # None
    /\ steps >= 3
    /\ field.current_board # lastCall.field.current_board
    /\ RelTam2Count(field.current_board) = 1

\* C9: in both representations, Operation B returns none exactly when the
\* hop1zuo1 of side has no entry equal to (color, profession) or dest is
\* occupied; after a call that returned none the caller's Field is as it was.
C9_ParachuteNone ==
    IsParachute =>
        LET entry == ColorAndProf(lastCall.color, lastCall.prof)
            no_match == Occurrences(HandIn(lastCall.field, lastCall.side), entry) = 0
            occupied == PeekPre(lastCall.dest) # None
        IN  /\ (lastCall.res = None) <=> (no_match \/ occupied)
            /\ lastCall.res = None => CurrentField = lastCall.field

\* the hop1zuo1 holds the entry asked for, and dest is occupied
C9_Witness ==
    /\ IsParachute
    /\ Occurrences(HandIn(lastCall.field, lastCall.side),
                    ColorAndProf(lastCall.color, lastCall.prof)) > 0
    /\ PeekPre(lastCall.dest) # None
    /\ lastCall.res = None
    /\ CurrentField = lastCall.field

\* C10: in both representations, Operation B with (color, profession) in the
\* hop1zuo1 of side and dest empty returns a Field in which that hop1zuo1 has
\* one occurrence of (color, profession) fewer and every other entry kept,
\* dest holds the non-neutral piece of that color, profession and side, every
\* other square is unchanged and the other hop1zuo1 is unchanged.
C10_ParachuteSuccess ==
    LET entry == ColorAndProf(lastCall.color, lastCall.prof)
    IN  (IsParachute
           /\ Occurrences(HandIn(lastCall.field, lastCall.side), entry) > 0
           /\ PeekPre(lastCall.dest) = None) =>
            /\ lastCall.res # None
            /\ Len(HandIn(Returned, lastCall.side))
                   = Len(HandIn(lastCall.field, lastCall.side)) - 1
            /\ \A e \in AllColorAndProf :
                   Occurrences(HandIn(Returned, lastCall.side), e)
                     = Occurrences(HandIn(lastCall.field, lastCall.side), e)
                         - (IF e = entry THEN 1 ELSE 0)
            /\ PeekIn(Returned, lastCall.dest)
                   = NonTam2Piece(lastCall.color, lastCall.prof, lastCall.side)
            /\ \A c \in AllCoords \ {lastCall.dest} : PeekIn(Returned, c) = PeekPre(c)
            /\ \A s \in SidesOfCall \ {lastCall.side} :
                   HandIn(Returned, s) = HandIn(lastCall.field, s)
            /\ CurrentField = Returned

\* a piece was placed from a hop1zuo1 that held two entries
C10_Witness ==
    /\ IsParachute
    /\ Len(HandIn(lastCall.field, lastCall.side)) = 2
    /\ PeekPre(lastCall.dest) = None
    /\ lastCall.res # None
    /\ Len(HandIn(CurrentField, lastCall.side)) = 1
    /\ PeekIn(CurrentField, lastCall.dest)
           = NonTam2Piece(lastCall.color, lastCall.prof, lastCall.side)

\* C11: when the hop1zuo1 of side holds several entries equal to
\* (color, profession), removing any one of them from the absolute Field and
\* placing the piece at dest gives a Field equal to the one Operation B
\* returns.
C11_DuplicateChoiceUnobservable ==
    (IsParachute /\ IsAbs /\ lastCall.res # None) =>
        LET hand == absolute_hop1zuo1(lastCall.field, lastCall.side)
        IN  \A i \in 1..Len(hand) :
                hand[i] = ColorAndProf(lastCall.color, lastCall.prof) =>
                    [absolute_remove_from_hop1zuo1(lastCall.field, lastCall.side, i)
                        EXCEPT !.board = HashMapInsert(@, lastCall.dest,
                            NonTam2Piece(lastCall.color, lastCall.prof, lastCall.side))]
                      = lastCall.res

----------------------------------------------------------------------------
(* The conversions.                                                        *)

\* the perspective that is not p
OtherPerspective(p) == CHOOSE q \in Perspective : q # p

\* C12: to_relative_field(f, p) has the board to_relative_board(f.board, p)
\* and holds the hop1zuo1 of each absolute side s, with the same (color,
\* profession) entries in the same order, as the hop1zuo1 of
\* to_relative_side(s, p); converting back with the same perspective gives f;
\* and to_relative_field(to_absolute_field(g, p), p) gives back every
\* relative Field g.
C12_FieldConversion ==
    /\ conv.fn = "to_relative_field" =>
          /\ conv.out.current_board = to_relative_board(conv.arg.board, conv.p)
          /\ \A sd \in AbsoluteSide :
                 ColorsAndProfs(relative_hop1zuo1(conv.out, to_relative_side(sd, conv.p)))
                     = absolute_hop1zuo1(conv.arg, sd)
          /\ \A i \in 1..Len(conv.out.hop1zuo1of_upward) :
                 conv.out.hop1zuo1of_upward[i].kind = "NonTam2PieceUpward"
          /\ \A i \in 1..Len(conv.out.hop1zuo1of_downward) :
                 conv.out.hop1zuo1of_downward[i].kind = "NonTam2PieceDownward"
          /\ conv.back = conv.arg
    /\ conv.fn = "to_absolute_field" => conv.back = conv.arg

\* a Field with a piece in one hop1zuo1 only, seen with IA up: the entry
\* is in the hop1zuo1 of Downward
C12_Witness ==
    /\ conv.fn = "to_relative_field"
    /\ conv.p = "IaIsUpAndPointsDownward"
    /\ Len(conv.arg.ia_side_hop1zuo1) = 1
    /\ Len(conv.arg.a_side_hop1zuo1) = 0
    /\ Len(conv.out.hop1zuo1of_downward) = 1
    /\ Len(conv.out.hop1zuo1of_upward) = 0
    /\ conv.back = conv.arg

\* C13: for both perspectives, to_absolute_piece(to_relative_piece(x, p), p)
\* = x for every absolute piece x and to_relative_piece(to_absolute_piece(y,
\* p), p) = y for every relative piece y, Tam2 being converted to Tam2; and
\* to_absolute_board(to_relative_board(b, p), p) = b for every absolute board
\* b, to_relative_board(to_absolute_board(d, p), p) = d for every relative
\* board d.
C13_BoardPieceRoundTrip ==
    /\ conv.fn \in {"to_relative_piece", "to_absolute_piece"} =>
          /\ conv.back = conv.arg
          /\ (conv.arg = Tam2) <=> (conv.out = Tam2)
    /\ conv.fn \in {"to_relative_board", "to_absolute_board"} =>
          conv.back = conv.arg

\* the board of a Field in which a piece has been captured, seen with IA up
C13_Witness ==
    /\ conv.fn = "to_relative_board"
    /\ conv.p = "IaIsUpAndPointsDownward"
    /\ PieceCount(conv.arg) = 48
    /\ conv.out # to_relative_board(conv.arg, "IaIsDownAndPointsUpward")
    /\ conv.back = conv.arg

\* C14: for every absolute board b, perspective p and absolute coordinate c,
\* the square to_relative_coord(c, p) of to_relative_board(b, p) holds
\* to_relative_piece(x, p) if b holds x at c and is empty if b is empty at c;
\* likewise for to_absolute_board with to_absolute_coord and
\* to_absolute_piece; both conversions keep the number of occupied squares.
C14_BoardConversionPointwise ==
    /\ conv.fn = "to_relative_board" =>
          /\ \A c \in AbsCoords :
                 LET sq == conv.out[to_relative_coord(c, conv.p)[1]][to_relative_coord(c, conv.p)[2]]
                 IN  IF c \in DOMAIN conv.arg
                     THEN sq = to_relative_piece(conv.arg[c], conv.p)
                     ELSE sq = None
          /\ Cardinality(OccupiedSquares(conv.out)) = Cardinality(DOMAIN conv.arg)
    /\ conv.fn = "to_absolute_board" =>
          /\ \A r \in RelCoords :
                 LET sq == HashMapGet(conv.out, to_absolute_coord(r, conv.p))
                 IN  IF conv.arg[r[1]][r[2]] # None
                     THEN sq = to_absolute_piece(conv.arg[r[1]][r[2]], conv.p)
                     ELSE sq = None
          /\ Cardinality(DOMAIN conv.out) = Cardinality(OccupiedSquares(conv.arg))

\* a relative board on which a piece has been moved to an empty square,
\* converted with IA up
C14_Witness ==
    /\ conv.fn = "to_absolute_board"
    /\ conv.p = "IaIsUpAndPointsDownward"
    /\ Cardinality(OccupiedSquares(conv.arg)) = 50
    /\ Cardinality(DOMAIN conv.out) = 50
    /\ conv.arg[8][8] # None
    /\ HashMapGet(conv.out, Coord("A", "K")) = to_absolute_piece(conv.arg[8][8], conv.p)

\* C15: for each perspective p, to_relative_side(., p) and
\* to_absolute_side(., p) are bijections between {IASide, ASide} and
\* {Upward, Downward}, each the inverse of the other; with the other
\* perspective q, to_relative_side(s, q) is Not(to_relative_side(s, p)) for
\* both absolute sides s.
C15_SideMapping ==
    /\ conv.fn = "to_relative_side" =>
          /\ conv.out \in Side
          /\ conv.back = conv.arg
          /\ \A s \in AbsoluteSide \ {conv.arg} : to_relative_side(s, conv.p) # conv.out
          /\ to_relative_side(conv.arg, OtherPerspective(conv.p)) = Not(conv.out)
    /\ conv.fn = "to_absolute_side" =>
          /\ conv.out \in AbsoluteSide
          /\ conv.back = conv.arg
          /\ \A s \in Side \ {conv.arg} : to_absolute_side(s, conv.p) # conv.out

\* with IA up, the IA side is the one pointing downward
C15_Witness ==
    /\ conv.fn = "to_relative_side"
    /\ conv.p = "IaIsUpAndPointsDownward"
    /\ conv.arg = "IASide"
    /\ conv.out = "Downward"
    /\ conv.back = "IASide"

----------------------------------------------------------------------------
(* The boards under peek, pop and put.                                     *)

IsBoardOp == lastCall.op \in {"peek", "pop", "put"}

\* the coordinate the relative board was given
MirrorCoord == to_relative_coord(lastCall.dest, mirror.p)

\* C16: for the absolute and for the relative board: peek changes nothing;
\* pop(c) returns what peek(c) returned before it, afterwards peek(c) is none
\* and a further pop(c) returns none; after put(c, x) peek(c) is x whatever c
\* held, none included; pop and put leave every other square as it was.
C16_BoardContract ==
    /\ lastCall.op = "peek" =>
          /\ field.board = lastCall.field.board
          /\ mirror.board = mirror.pre
    /\ lastCall.op = "pop" =>
          /\ lastCall.res = absolute_peek(lastCall.field.board, lastCall.dest)
          /\ absolute_peek(field.board, lastCall.dest) = None
          /\ absolute_pop(field.board, lastCall.dest).res = None
          /\ mirror.res = relative_peek(mirror.pre, MirrorCoord)
          /\ relative_peek(mirror.board, MirrorCoord) = None
          /\ relative_pop(mirror.board, MirrorCoord).res = None
    /\ lastCall.op = "put" =>
          /\ absolute_peek(field.board, lastCall.dest) = lastCall.piece
          /\ relative_peek(mirror.board, MirrorCoord)
                 = OptionToRelativePiece(lastCall.piece, mirror.p)
    /\ lastCall.op \in {"pop", "put"} =>
          /\ \A c \in AbsCoords \ {lastCall.dest} :
                 absolute_peek(field.board, c) = absolute_peek(lastCall.field.board, c)
          /\ \A r \in RelCoords \ {MirrorCoord} :
                 relative_peek(mirror.board, r) = relative_peek(mirror.pre, r)

\* a square that held a piece is popped a second time
C16_Witness ==
    /\ lastCall.op = "pop"
    /\ steps = 2
    /\ absolute_peek(yhuap_initial_board, lastCall.dest) # None
    /\ absolute_peek(lastCall.field.board, lastCall.dest) = None
    /\ lastCall.res = None
    /\ mirror.res = None

\* C17: starting from an absolute board b and to_relative_board(b, p), the
\* same puts and pops applied to both, with coordinates and pieces converted
\* for the relative board, keep the relative board equal to
\* to_relative_board(., p) of the absolute one after every step, and every
\* peek and pop returns on the relative board the converted piece of what it
\* returns on the absolute board.
C17_BoardsInStep ==
    /\ mirror.p \in Perspective =>
          mirror.board = to_relative_board(field.board, mirror.p)
    /\ lastCall.op \in {"peek", "pop"} =>
          mirror.res = OptionToRelativePiece(lastCall.res, mirror.p)

\* a piece of the IA side put on an occupied square and popped again, the
\* relative board seeing it as pointing downward
C17_Witness ==
    /\ lastCall.op = "pop"
    /\ mirror.p = "IaIsUpAndPointsDownward"
    /\ lastCall.res = NonTam2Piece("Kok1", "Kauk2", "IASide")
    /\ mirror.res = NonTam2Piece("Kok1", "Kauk2", "Downward")
    /\ absolute_peek(yhuap_initial_board, lastCall.dest) # None
    /\ absolute_peek(yhuap_initial_board, lastCall.dest) # lastCall.res
    /\ mirror.board = to_relative_board(field.board, mirror.p)

----------------------------------------------------------------------------
(* The initial position.                                                   *)

\* the caller holds the Field yhuap_initial() returned and has not called yet
HoldsInitialAbsField == repr = "absolute" /\ steps = 0 /\ lastCall.op = "none"

\* number of pieces of a side on an absolute board
OwnedBy(board, sid) == Cardinality({c \in DOMAIN board : has_side(board[c], sid)})

\* C18 as stated: the Field returned by yhuap_initial() has exactly 21
\* non-neutral pieces of each side, exactly one Tam2, standing on the centre
\* square (row O, column Z), and both hop1zuo1 empty.
C18_InitialField21 ==
    HoldsInitialAbsField =>
        /\ \A sid \in AbsoluteSide : OwnedBy(field.board, sid) = 21
        /\ AbsTam2Count(field.board) = 1
        /\ HashMapGet(field.board, Coord("O", "Z")) = Tam2
        /\ field.a_side_hop1zuo1 = <<>>
        /\ field.ia_side_hop1zuo1 = <<>>

\* C18 amended: the Field returned by yhuap_initial() has exactly 24
\* non-neutral pieces of each side, exactly one Tam2, standing on the centre
\* square (row O, column Z), 49 pieces in all, and both hop1zuo1 empty.
C18_InitialField ==
    HoldsInitialAbsField =>
        /\ \A sid \in AbsoluteSide : OwnedBy(field.board, sid) = 24
        /\ AbsTam2Count(field.board) = 1
        /\ HashMapGet(field.board, Coord("O", "Z")) = Tam2
        /\ PieceCount(field.board) = 49
        /\ field.a_side_hop1zuo1 = <<>>
        /\ field.ia_side_hop1zuo1 = <<>>

\* the initial absolute Field, with the kings of the two sides on its edges
C18_Witness ==
    /\ HoldsInitialAbsField
    /\ HashMapGet(field.board, Coord("IA", "Z")) = NonTam2Piece("Huok2", "Io", "IASide")
    /\ HashMapGet(field.board, Coord("A", "Z")) = NonTam2Piece("Kok1", "Io", "ASide")
    /\ OwnedBy(field.board, "IASide") = 24

\* C19: to_absolute_board of
\* relative::yhuap_initial_board_where_black_king_points_upward() with
\* IaIsDownAndPointsUpward is absolute::yhuap_initial_board(): the same
\* squares are occupied and each holds the same color, profession and owner.
C19_InitialTablesAgree ==
    (/\ conv.fn = "to_absolute_board"
     /\ conv.p = "IaIsDownAndPointsUpward"
     /\ conv.arg = yhuap_initial_board_where_black_king_points_upward) =>
        /\ DOMAIN conv.out = DOMAIN yhuap_initial_board
        /\ \A c \in AbsCoords :
               HashMapGet(conv.out, c) = HashMapGet(yhuap_initial_board, c)

\* the relative table has been converted: the black king of the IA side
\* stands on the edge row IA
C19_Witness ==
    /\ conv.fn = "to_absolute_board"
    /\ conv.p = "IaIsDownAndPointsUpward"
    /\ conv.arg = yhuap_initial_board_where_black_king_points_upward
    /\ conv.arg[8][4] = NonTam2Piece("Huok2", "Io", "Upward")
    /\ HashMapGet(conv.out, Coord("IA", "Z")) = NonTam2Piece("Huok2", "Io", "IASide")
    /\ PieceCount(conv.out) = 49

----------------------------------------------------------------------------
(* Distance.                                                               *)

\* position of a row in the enumeration Row, of a column in Column
RowIndex(row) == CHOOSE i \in 1..9 : rows[i] = row

ColumnIndex(column) == CHOOSE i \in 1..9 : columns[i] = column

\* C20: for all absolute coordinates a, b and both perspectives p,
\* absolute::distance(a, b) is relative::distance of the two squares
\* converted with p and is the larger of the row difference and the column
\* difference; distance(b, a) is the same number and distance(a, a) is 0.
C20_DistanceViewpointIndependent ==
    conv.fn = "distance" =>
        LET a == conv.arg[1]
            b == conv.arg[2]
        IN  /\ conv.out = conv.back
            /\ conv.out = Max(Abs(RowIndex(a[1]) - RowIndex(b[1])),
                              Abs(ColumnIndex(a[2]) - ColumnIndex(b[2])))
            /\ absolute_distance(b, a) = conv.out
            /\ a = b => conv.out = 0

\* two squares a knight's move apart, seen with IA up
C20_Witness ==
    /\ conv.fn = "distance"
    /\ conv.p = "IaIsUpAndPointsDownward"
    /\ conv.arg = <<Coord("A", "K"), Coord("E", "N")>>
    /\ conv.out = 2
    /\ conv.back = 2

----------------------------------------------------------------------------
(* Directions.                                                             *)

\* the vector from square o to square c, in row and column positions
VectorTo(o, c) == <<RowIndex(c[1]) - RowIndex(o[1]), ColumnIndex(c[2]) - ColumnIndex(o[2])>>

\* v = k * w for a rational k > 0: the components are at most 8 apart, so k
\* is m / n with m, n in 1..8
PositiveMultiple(v, w) ==
    \E m \in 1..8, n \in 1..8 : n * v[1] = m * w[1] /\ n * v[2] = m * w[2]

\* C21 as stated: absolute::same_direction(origin, a, b) is true exactly when
\* a - origin = k * (b - origin) for a rational k > 0; it is false when a or
\* b is origin, and for opposite or non-colinear directions; numbering the
\* squares with either perspective gives the same result.  With
\* a = b = origin every k > 0 satisfies the equation, and the result is false.
C21_SameDirectionOfAnyVectors ==
    conv.fn = "same_direction" =>
        LET origin == conv.arg[1]
            a == conv.arg[2]
            b == conv.arg[3]
        IN  /\ conv.out <=> PositiveMultiple(VectorTo(origin, a), VectorTo(origin, b))
            /\ (a = origin \/ b = origin) => ~conv.out
            /\ VectorTo(origin, a) = <<-VectorTo(origin, b)[1], -VectorTo(origin, b)[2]>>
                   => ~conv.out
            /\ conv.back = conv.out

\* C21: absolute::same_direction(origin, a, b) is true exactly when a and b
\* both differ from origin and a - origin = k * (b - origin) for a rational
\* k > 0; it is false when a or b is origin, and for opposite or non-colinear
\* directions; numbering the squares with either perspective gives the same
\* result.
C21_SameDirection ==
    conv.fn = "same_direction" =>
        LET origin == conv.arg[1]
            a == conv.arg[2]
            b == conv.arg[3]
        IN  /\ conv.out <=>
                   /\ a # origin
                   /\ b # origin
                   /\ PositiveMultiple(VectorTo(origin, a), VectorTo(origin, b))
            /\ (a = origin \/ b = origin) => ~conv.out
            /\ VectorTo(origin, a) = <<-VectorTo(origin, b)[1], -VectorTo(origin, b)[2]>>
                   => ~conv.out
            /\ conv.back = conv.out

\* two squares on the same diagonal from the centre, at different distances,
\* numbered with IA up
C21_Witness ==
    /\ conv.fn = "same_direction"
    /\ conv.p = "IaIsUpAndPointsDownward"
    /\ conv.arg = <<Coord("O", "Z"), Coord("I", "N"), Coord("E", "L")>>
    /\ conv.out = TRUE
    /\ conv.back = TRUE

----------------------------------------------------------------------------
(* Rotation.                                                               *)

\* y is x seen from the other side of the board: Tam2 stays Tam2, an owned
\* piece keeps color and profession and changes side, no piece stays no piece
SeenFromOtherSide(x, y) ==
    CASE x = None -> y = None
      [] x = Tam2 -> y = Tam2
      [] OTHER -> /\ y.kind = "NonTam2Piece"
                  /\ y.color = x.color
                  /\ y.prof = x.prof
                  /\ y.side \in Side \ {x.side}

\* C22: rotate_board(rotate_board(b)) = b, and rotate_board(b)[i][j] is the
\* content of b[8-i][8-j] with Tam2 kept and the side of an owned piece
\* inverted; rotate_coord(rotate_coord(c)) = c and rotate_coord([r, c]) =
\* [8-r, 8-c]; flipping the side of a piece twice gives the piece back.
C22_RotationInvolution ==
    /\ conv.fn = "rotate_board" =>
           /\ conv.back = conv.arg
           /\ \A i \in 0..8, j \in 0..8 :
                  SeenFromOtherSide(conv.arg[8 - i][8 - j], conv.out[i][j])
    /\ conv.fn = "rotate_coord" =>
           /\ conv.back = conv.arg
           /\ conv.out[1] + conv.arg[1] = 8
           /\ conv.out[2] + conv.arg[2] = 8
    /\ conv.fn = "rotate_piece_or_null" =>
           /\ conv.back = conv.arg
           /\ SeenFromOtherSide(conv.arg, conv.out)

\* a board with Tam2 in the centre and a piece of the Upward side in its last
\* corner has been rotated
C22_Witness ==
    /\ conv.fn = "rotate_board"
    /\ conv.arg[4][4] = Tam2
    /\ conv.out[4][4] = Tam2
    /\ conv.arg[8][8].kind = "NonTam2Piece"
    /\ conv.arg[8][8].side = "Upward"
    /\ conv.out[0][0] = NonTam2Piece(conv.arg[8][8].color, conv.arg[8][8].prof, "Downward")
    /\ conv.out # conv.arg
    /\ conv.back = conv.arg

----------------------------------------------------------------------------
(* The textual form of a coordinate.                                       *)

\* C23: parse_coord(serialize_coord(c)) = Some(c) for all 81 coordinates;
\* serialize_coord writes the column token, then the row token;
\* parse_coord returns None for every string that is not the serialization
\* of a coordinate (wrong case, unknown letters, empty, more than 3
\* characters) and the coordinate for one that is.
C23_CoordCodec ==
    /\ conv.fn = "serialize_coord" =>
           /\ conv.back = Some(conv.arg)
           /\ Head(conv.out) = conv.arg[2]
           /\ Len(conv.out) \in 2..3
           /\ \A i \in 2..Len(conv.out) : conv.out[i] \in {"A", "E", "I", "O", "U", "Y"}
    /\ conv.fn = "parse_coord" =>
           /\ conv.out = None <=> \A c \in AbsCoords : serialize_coord(c) # conv.arg
           /\ conv.out # None => conv.back = Some(conv.arg)
           /\ (conv.arg = <<>> \/ Len(conv.arg) > 3) => conv.out = None
           /\ (\E i \in 1..Len(conv.arg) : conv.arg[i] \in {"a", "k", "B", "e-acute"})
                  => conv.out = None

\* the square of row IA and column L is written LIA and read back
C23_Witness ==
    /\ conv.fn = "serialize_coord"
    /\ conv.arg = Coord("IA", "L")
    /\ conv.out = <<"L", "I", "A">>
    /\ conv.back = Some(Coord("IA", "L"))

----------------------------------------------------------------------------
(* Captures in the relative representation.                                *)

\* C24: relative Operation A with src holding a piece of the acting side and
\* dest holding a non-neutral piece of the other side succeeds; the hop1zuo1
\* of the acting side is the old one with exactly one entry appended, which
\* carries the color and profession of the piece that stood on dest, and the
\* hop1zuo1 of the other side is unchanged.
C24_RelCapture ==
    (IsMove /\ IsRel /\ SrcIsOwn
       /\ PeekPre(lastCall.dest) # None /\ PeekPre(lastCall.dest) # Tam2
       /\ ~has_side(PeekPre(lastCall.dest), lastCall.side)) =>
        LET captured == PeekPre(lastCall.dest)
            old == relative_hop1zuo1(lastCall.field, lastCall.side)
            new == relative_hop1zuo1(Returned, lastCall.side)
        IN  /\ lastCall.res.tag = "Ok"
            /\ Len(new) = Len(old) + 1
            /\ \A i \in 1..Len(old) : new[i] = old[i]
            /\ new[Len(new)].color = captured.color
            /\ new[Len(new)].prof = captured.prof
            /\ \A s \in Side \ {lastCall.side} :
                   relative_hop1zuo1(Returned, s) = relative_hop1zuo1(lastCall.field, s)

\* the Downward side, holding a captured piece, has captured a piece of
\* another color or profession
C24_Witness ==
    /\ IsMove /\ IsRel /\ SrcIsOwn /\ lastCall.side = "Downward"
    /\ PeekPre(lastCall.dest) # None /\ PeekPre(lastCall.dest) # Tam2
    /\ has_side(PeekPre(lastCall.dest), "Upward")
    /\ Len(lastCall.field.hop1zuo1of_downward) = 1
    /\ ColorsAndProfs(lastCall.field.hop1zuo1of_downward)[1]
           # ColorAndProf(PeekPre(lastCall.dest).color, PeekPre(lastCall.dest).prof)
    /\ lastCall.res.tag = "Ok"
    /\ Len(field.hop1zuo1of_downward) = 2
    /\ field.hop1zuo1of_downward[1] = lastCall.field.hop1zuo1of_downward[1]
    /\ field.hop1zuo1of_upward = lastCall.field.hop1zuo1of_upward

----------------------------------------------------------------------------
(* The operations and the change of perspective.                           *)

\* relative Operation A on the arguments of the absolute call, seen with p
RelMoveSeenWith(p) ==
    relative_move_nontam_piece_from_src_to_dest_while_taking_opponent_piece_if_needed(
        to_relative_field(lastCall.field, p), to_relative_coord(lastCall.src, p),
        to_relative_coord(lastCall.dest, p), to_relative_side(lastCall.side, p))

\* C25: for every absolute Field, perspective p, src, dest (src = dest
\* included) and acting side, absolute Operation A succeeds exactly when
\* relative Operation A on the arguments converted with p succeeds; when both
\* fail the error is the same, and when both succeed the relative result is
\* to_relative_field of the absolute result.
C25_MoveCommutes ==
    (IsMove /\ IsAbs) =>
        \A p \in Perspective :
            LET rel == RelMoveSeenWith(p)
            IN  /\ lastCall.res.tag = rel.tag
                /\ lastCall.res.tag = "Err" => rel = lastCall.res
                /\ lastCall.res.tag = "Ok" => rel.val = to_relative_field(lastCall.res.val, p)

----------------------------------------------------------------------------
(* Conservation of pieces.                                                 *)

\* number of non-neutral pieces on an absolute board
NonNeutralCount(board) == Cardinality({c \in DOMAIN board : board[c] # Tam2})

\* non-neutral pieces of an absolute Field, on the board and in both hop1zuo1
PiecesIn(f) ==
    NonNeutralCount(f.board) + Len(f.ia_side_hop1zuo1) + Len(f.a_side_hop1zuo1)

\* C26: in every absolute Field reached from yhuap_initial() by successful
\* Operation A and Operation B calls, the non-neutral pieces on the board
\* plus the entries of the two hop1zuo1 are as many as the non-neutral pieces
\* of the initial position.
C26_PieceConservation ==
    repr = "absolute" =>
        /\ PiecesIn(field) = NonNeutralCount(yhuap_initial_board)
        /\ (lastCall.op # "none" /\ ~CallFailed) =>
               PiecesIn(lastCall.field) = PiecesIn(field)

\* two captures and then a piece placed from a hop1zuo1
C26_Witness ==
    /\ IsAbs /\ IsParachute /\ lastCall.res # None
    /\ steps = 3
    /\ Len(field.ia_side_hop1zuo1) + Len(field.a_side_hop1zuo1) = 1
    /\ NonNeutralCount(field.board) = 47
    /\ NonNeutralCount(lastCall.field.board) = 46

\* relative Operation B on the arguments of the absolute call, seen with p
RelParachuteSeenWith(p) ==
    relative_search_from_hop1zuo1_and_parachute_at(
        to_relative_field(lastCall.field, p), lastCall.color, lastCall.prof,
        to_relative_side(lastCall.side, p), to_relative_coord(lastCall.dest, p))

\* C27: for every absolute Field, perspective p, color, profession, side and
\* dest, absolute Operation B returns none exactly when relative Operation B
\* on the arguments converted with p returns none; otherwise the relative
\* result has the board and both hop1zuo1, in their order, of
\* to_relative_field of the absolute result.
C27_ParachuteCommutes ==
    (IsParachute /\ IsAbs) =>
        \A p \in Perspective :
            LET rel == RelParachuteSeenWith(p)
            IN  /\ (lastCall.res = None) <=> (rel = None)
                /\ lastCall.res # None =>
                       LET expected == to_relative_field(lastCall.res, p)
                       IN  /\ rel.current_board = expected.current_board
                           /\ rel.hop1zuo1of_upward = expected.hop1zuo1of_upward
                           /\ rel.hop1zuo1of_downward = expected.hop1zuo1of_downward

\* the hop1zuo1 of the side held the entry asked for twice, with another
\* entry in between, and a piece was placed
C27_Witness ==
    /\ IsParachute /\ IsAbs /\ lastCall.res # None
    /\ LET v == absolute_hop1zuo1(lastCall.field, lastCall.side)
       IN  /\ Len(v) = 3
           /\ v[1] = ColorAndProf(lastCall.color, lastCall.prof)
           /\ v[3] = v[1]
           /\ v[2] # v[1]
           /\ absolute_hop1zuo1(field, lastCall.side) = <<v[2], v[3]>>
    /\ RelParachuteSeenWith("IaIsUpAndPointsDownward") # None

----------------------------------------------------------------------------
(* Rotation and the change of perspective.                                 *)

\* C28: to_absolute_board(rotate_board(b), p) is to_absolute_board(b, q) for
\* the two perspectives p # q, in both orders;
\* yhuap_initial_board_where_red_king_points_upward() read with
\* IaIsUpAndPointsDownward is the absolute initial board.
C28_RotationIsOtherPerspective ==
    /\ conv.fn = "rotate_board, to_absolute_board" => conv.out = conv.back
    /\ (conv.fn = "to_absolute_board"
          /\ conv.arg = yhuap_initial_board_where_red_king_points_upward
          /\ conv.p = "IaIsUpAndPointsDownward") =>
           conv.out = yhuap_initial_board

\* a board on which a piece has moved is rotated and read with IA up; the
\* rotation changes what is read
C28_Witness ==
    /\ conv.fn = "rotate_board, to_absolute_board"
    /\ conv.p = "IaIsUpAndPointsDownward"
    /\ conv.arg # yhuap_initial_board_where_red_king_points_upward
    /\ conv.arg # yhuap_initial_board_where_black_king_points_upward
    /\ conv.out = conv.back
    /\ conv.out # to_absolute_board(conv.arg, conv.p)
    /\ HashMapGet(conv.out, Coord("O", "Z")) = Tam2

----------------------------------------------------------------------------
(* A captured piece is placed back by the side that took it.               *)

\* the last call was a successful absolute Operation A that took a piece
AbsCaptured ==
    /\ IsAbs /\ MoveOk
    /\ PeekPre(lastCall.dest) # None /\ PeekPre(lastCall.dest) # Tam2
    /\ ~has_side(PeekPre(lastCall.dest), lastCall.side)

\* C29: when side S has taken a piece of (color, profession) with a
\* successful absolute Operation A, the capture leaves the hop1zuo1 of the
\* other side as it was; a following Operation B by S with that (color,
\* profession) onto an empty square succeeds and puts a piece of S there; a
\* following Operation B by the other side with that (color, profession)
\* succeeds only if its hop1zuo1 held such an entry before the capture.
C29_CapturedPieceChangesSides ==
    [][(AbsCaptured /\ lastCall'.op = "parachute"
          /\ lastCall'.color = PeekPre(lastCall.dest).color
          /\ lastCall'.prof = PeekPre(lastCall.dest).prof) =>
         LET entry == ColorAndProf(lastCall'.color, lastCall'.prof)
             S == lastCall.side
         IN  /\ \A loser \in AbsoluteSide \ {S} :
                    absolute_hop1zuo1(field, loser) = absolute_hop1zuo1(lastCall.field, loser)
             /\ (lastCall'.side = S /\ HashMapGet(field.board, lastCall'.dest) = None) =>
                    /\ lastCall'.res # None
                    /\ HashMapGet(field'.board, lastCall'.dest)
                           = NonTam2Piece(lastCall'.color, lastCall'.prof, S)
             /\ (lastCall'.side # S /\ lastCall'.res # None) =>
                    Occurrences(absolute_hop1zuo1(lastCall.field, lastCall'.side), entry) > 0
      ]_vars

\* a side took a piece with the first call and placed it with the second
C29_Witness ==
    /\ IsAbs /\ IsParachute /\ lastCall.res # None
    /\ steps = 2
    /\ NonNeutralCount(lastCall.field.board) = 47
    /\ absolute_hop1zuo1(lastCall.field, lastCall.side)
           = <<ColorAndProf(lastCall.color, lastCall.prof)>>
    /\ HashMapGet(field.board, lastCall.dest)
           = NonTam2Piece(lastCall.color, lastCall.prof, lastCall.side)
    /\ absolute_hop1zuo1(field, lastCall.side) = <<>>

----------------------------------------------------------------------------
(* add_delta.                                                              *)

\* C30: add_delta([i, j], row_delta, col_delta) with i, j in 0..8 returns
\* Some([i + row_delta, j + col_delta]) exactly when both sums are in 0..8
\* and None otherwise, a negative sum or an overflow included; it never
\* returns a coordinate off the board.
C30_AddDelta ==
    conv.fn = "add_delta" =>
        LET i == conv.arg[1][1]
            j == conv.arg[1][2]
            row == i + conv.arg[2]
            col == j + conv.arg[3]
            on_board == row \in 0..8 /\ col \in 0..8
        IN  /\ on_board => conv.out = Some(<<row, col>>)
            /\ ~on_board => conv.out = None
            /\ conv.out # None => conv.out.val \in RelCoords

\* a delta leads off the board on the far side, and the least isize as well
C30_Witness ==
    /\ conv.fn = "add_delta"
    /\ conv.arg[1] = <<8, 0>>
    /\ conv.arg[2] = 1
    /\ conv.arg[3] = isize_MIN
    /\ conv.out = None

====
